---- MODULE Spec2Model ----
(***************************************************************************)
(* Verification model of pdinklag/lzend: the LZ-End parser (lzend.hpp),    *)
(* the ordered B-tree map it marks phrase ends in (ordered/btree) and the  *)
(* range-minimum structure it queries the LCP array with (rmq).            *)
(*                                                                         *)
(* Arrays keep the 0-based positions of the source: a C array a[0..m) is   *)
(* a TLA+ sequence whose element at source position p is a[p + 1] (At).    *)
(***************************************************************************)
EXTENDS Integers, Sequences, FiniteSets, TLC

VARIABLES
    degree_,   \* BTree::degree_, the template parameter of the container
    block_size_, \* RMQ::block_size_, the template parameter of the RMQ
    map,       \* the B-tree under test: [size_, root_]
    ref,       \* history of the container: key -> value inserted and not erased
    s,         \* parse: the input string, positions 0..n-1
    n,         \* parse: Index n = s.length()
    isa,       \* parse: the permuted inverse suffix array
    lcp,       \* parse: the LCP array of the reversed text
    marked,    \* parse: ordered::btree::Map<Index, Index> marked
    parsing,   \* parse: std::vector<Phrase> parsing
    z,         \* parse: index of the latest phrase
    i,         \* parse: the loop variable
    cases,     \* parse, history: the case each iteration so far has taken
    pc,        \* parse: "prepare" at the call, "loop" in the main loop, "done" after return
    data_,     \* the array an RMQ or RMQBenderFarachColton under test is built over
    query,     \* the last query made of it: <<structure, i, j>>
    answer,    \* what that query returned: [pos, min]
    length_high,    \* parse: s.length() = length_high * 2^32 + Len(s)
    libsais_result, \* parse: what the libsais calls return, 0 or an error code
    marker,    \* the RangeMarker under test
    stated_max_key,   \* the max_key it was constructed with
    mlog,      \* history of the RangeMarker: [clears, out_of_bounds, last]
    print_progress, \* parse: the parameter print_progress
    cout       \* parse: the lines written to std::cout so far

btvars == <<degree_, map, ref>>
config == <<degree_, block_size_>>
pvars == <<s, n, isa, lcp, marked, parsing, z, i, cases, pc, cout>>
rvars == <<data_, query, answer>>
evars == <<length_high, libsais_result, print_progress>>
vars == <<degree_, block_size_, map, ref, s, n, isa, lcp, marked, parsing, z, i, cases, pc,
          data_, query, answer, length_high, libsais_result, marker, stated_max_key, mlog,
          print_progress, cout>>
mvars == <<marker, stated_max_key, mlog>>

\* no RangeMarker under test
MarkerIdle == marker = <<>> /\ stated_max_key = 0 /\ mlog = <<>>

\* an input shorter than 2^32 bytes, library calls that succeed, and
\* print_progress left at its default
Nominal == length_high = 0 /\ libsais_result = 0 /\ print_progress = FALSE

\* no RMQ under test
RMQIdle == data_ = <<>> /\ query = <<>> /\ answer = <<>>

----------------------------------------------------------------------------
(* Sequence helpers for 0-based positions *)

At(a, p) == a[p + 1]

InsertAt(a, p, e) == SubSeq(a, 1, p) \o <<e>> \o SubSeq(a, p + 1, Len(a))

RemoveAt(a, p) == SubSeq(a, 1, p) \o SubSeq(a, p + 2, Len(a))

\* the value of a variable that was declared and never assigned
Uninit == "uninitialized"

\* what a read outside an allocated array yields: a position that is none
OutOfBounds == 0 - 1

\* m array slots that were allocated and never assigned
RECURSIVE unassigned(_)
unassigned(m) == IF m = 0 THEN <<>> ELSE Append(unassigned(m - 1), Uninit)

----------------------------------------------------------------------------
(* ordered/btree/internal/linear_search_base.hpp, linear_search_map.hpp     *)
(* A node implementation is the pair of flat arrays keys, vals; the model  *)
(* keeps them as fields of the node record next to the children ch.        *)

LocalNone == [exists |-> FALSE, pos |-> 0]

RECURSIVE insert_pos(_, _, _)
insert_pos(keys, key, p) ==
    IF p < Len(keys) /\ At(keys, p) < key THEN insert_pos(keys, key, p + 1) ELSE p

\* LinearSearchBase::insert_key: the position the key is stored at
insert_key(keys, key) == insert_pos(keys, key, 0)

RECURSIVE find_pos(_, _, _)
find_pos(keys, key, p) ==
    IF p >= Len(keys) THEN -1
    ELSE IF At(keys, p) = key THEN p
    ELSE find_pos(keys, key, p + 1)

\* LinearSearchBase::erase_key: the position of the key, -1 for "return false"
erase_key(keys, key) == find_pos(keys, key, 0)

RECURSIVE scan_leq(_, _, _)
scan_leq(keys, x, p) == IF At(keys, p) <= x THEN scan_leq(keys, x, p + 1) ELSE p

RECURSIVE scan_lt(_, _, _)
scan_lt(keys, x, p) == IF At(keys, p) < x THEN scan_lt(keys, x, p + 1) ELSE p

LinearSearchBase_predecessor(keys, x) ==
    IF Len(keys) = 0 THEN LocalNone
    ELSE IF x < At(keys, 0) THEN LocalNone
    ELSE IF x >= At(keys, Len(keys) - 1) THEN [exists |-> TRUE, pos |-> Len(keys) - 1]
    ELSE [exists |-> TRUE, pos |-> scan_leq(keys, x, 1) - 1]

LinearSearchBase_successor(keys, x) ==
    IF Len(keys) = 0 THEN LocalNone
    ELSE IF x <= At(keys, 0) THEN [exists |-> TRUE, pos |-> 0]
    ELSE IF x > At(keys, Len(keys) - 1) THEN LocalNone
    ELSE [exists |-> TRUE, pos |-> scan_lt(keys, x, 1)]

\* LinearSearchMap::insert storing the value behind the values held so far
\* instead of at the position of its key
LinearSearchMap_insert_value_last(nd, key, value) ==
    [nd EXCEPT !.keys = InsertAt(nd.keys, insert_key(nd.keys, key), key),
               !.vals = Append(nd.vals, value)]

\* LinearSearchMap::insert(key, value) on the node's arrays
LinearSearchMap_insert(nd, key, value) ==
    LET p == insert_key(nd.keys, key)
    IN  [nd EXCEPT !.keys = InsertAt(nd.keys, p, key),
                   !.vals = InsertAt(nd.vals, p, value)]

\* LinearSearchMap::erase(key, value&): [ok, value, node]
LinearSearchMap_erase(nd, key) ==
    LET p == erase_key(nd.keys, key)
    IN  IF p = -1
        THEN [ok |-> FALSE, value |-> Uninit, node |-> nd]
        ELSE [ok |-> TRUE, value |-> At(nd.vals, p),
              node |-> [nd EXCEPT !.keys = RemoveAt(nd.keys, p),
                                  !.vals = RemoveAt(nd.vals, p)]]

----------------------------------------------------------------------------
(* ordered/btree/internal/btree_impl.hpp                                    *)

node_capacity == degree_ - 1
split_right_ == node_capacity \div 2
split_mid_ == split_right_ - 1
deletion_threshold_ == degree_ \div 2

\* Node(): no keys, children_ = nullptr
NewNode == [keys |-> <<>>, vals |-> <<>>, ch |-> <<>>]

is_leaf(nd) == Len(nd.ch) = 0
size(nd) == Len(nd.keys)
is_full(nd) == size(nd) = node_capacity

insert_child(nd, p, c) == [nd EXCEPT !.ch = InsertAt(nd.ch, p, c)]

erase_child(nd, p) == [nd EXCEPT !.ch = RemoveAt(nd.ch, p)]

\* the loop "z->impl_.insert(y[j + from], y.value(j + from))" for j = at..cnt-1
RECURSIVE move_keys(_, _, _, _, _)
move_keys(dst, src, from, at, cnt) ==
    IF at >= cnt THEN dst
    ELSE move_keys(LinearSearchMap_insert(dst, At(src.keys, at + from),
                                          At(src.vals, at + from)),
                   src, from, at + 1, cnt)

\* the loop "y->impl_.erase(keybuf[j])" for j = at..Len(keybuf)-1
RECURSIVE erase_keys(_, _, _)
erase_keys(nd, keybuf, at) ==
    IF at >= Len(keybuf) THEN nd
    ELSE erase_keys(LinearSearchMap_erase(nd, At(keybuf, at)).node, keybuf, at + 1)

\* split_child leaving the new right sibling z without the children of y
split_child_childless(nd, p) ==
    LET y == At(nd.ch, p)
        m == At(y.keys, split_mid_)
        keybuf == SubSeq(y.keys, split_right_ + 1, 2 * split_right_)
        z0 == move_keys(NewNode, y, split_right_, 0, split_right_)
        y0 == erase_keys(y, keybuf, 0)
        em == LinearSearchMap_erase(y0, m)
        y1 == IF is_leaf(y) THEN em.node
              ELSE [em.node EXCEPT !.ch = SubSeq(y.ch, 1, Len(y.ch) - (split_right_ + 1))]
        withm == LinearSearchMap_insert(nd, m, em.value)
    IN  insert_child([withm EXCEPT !.ch[p + 1] = y1], p + 1, z0)

split_child(nd, p) ==
    LET y == At(nd.ch, p)
        m == At(y.keys, split_mid_)
        keybuf == SubSeq(y.keys, split_right_ + 1, 2 * split_right_)
        z0 == move_keys(NewNode, y, split_right_, 0, split_right_)
        y0 == erase_keys(y, keybuf, 0)
        em == LinearSearchMap_erase(y0, m)
        z1 == IF is_leaf(y) THEN z0
              ELSE [z0 EXCEPT !.ch = SubSeq(y.ch, split_right_ + 1, node_capacity + 1)]
        y1 == IF is_leaf(y) THEN em.node
              ELSE [em.node EXCEPT !.ch = SubSeq(y.ch, 1, Len(y.ch) - (split_right_ + 1))]
        withm == LinearSearchMap_insert(nd, m, em.value)
    IN  insert_child([withm EXCEPT !.ch[p + 1] = y1], p + 1, z1)

RECURSIVE Node_insert(_, _, _)
Node_insert(nd, key, value) ==
    IF is_leaf(nd) THEN LinearSearchMap_insert(nd, key, value)
    ELSE LET r == LinearSearchBase_predecessor(nd.keys, key)
             p0 == IF r.exists THEN r.pos + 1 ELSE 0
             full == is_full(At(nd.ch, p0))
             nd1 == IF full THEN split_child(nd, p0) ELSE nd
             p1 == IF full /\ key > At(nd1.keys, p0) THEN p0 + 1 ELSE p0
         IN  [nd1 EXCEPT !.ch[p1 + 1] = Node_insert(At(nd1.ch, p1), key, value)]

\* BTree(): size_(0), root_(new Node())
NewBTree == [size_ |-> 0, root_ |-> NewNode]

BTree_insert(t, key, value) ==
    LET root1 == IF is_full(t.root_)
                 THEN split_child(insert_child(NewNode, 0, t.root_), 0)
                 ELSE t.root_
    IN  [size_ |-> t.size_ + 1, root_ |-> Node_insert(root1, key, value)]

\* "while(!c->is_leaf()) c = c->children_[c->num_children_-1]"
RECURSIVE rightmost_leaf(_)
rightmost_leaf(nd) == IF is_leaf(nd) THEN nd ELSE rightmost_leaf(At(nd.ch, Len(nd.ch) - 1))

\* "while(!c->is_leaf()) c = c->children_[0]"
RECURSIVE leftmost_leaf(_)
leftmost_leaf(nd) == IF is_leaf(nd) THEN nd ELSE leftmost_leaf(At(nd.ch, 0))

\* Node::erase, the child c = children_[p] borrows through the splitter from
\* its left sibling
borrow_left(nd, p) ==
    LET c == At(nd.ch, p)
        left == At(nd.ch, p - 1)
        splitter == At(nd.keys, p - 1)
        es == LinearSearchMap_erase(nd, splitter)
        c1 == LinearSearchMap_insert(c, splitter, es.value)
        llargest == At(left.keys, size(left) - 1)
        el == LinearSearchMap_erase(left, llargest)
        nd1 == LinearSearchMap_insert(es.node, llargest, el.value)
        left1 == IF is_leaf(left) THEN el.node
                 ELSE erase_child(el.node, Len(left.ch) - 1)
        c2 == IF is_leaf(left) THEN c1
              ELSE insert_child(c1, 0, At(left.ch, Len(left.ch) - 1))
    IN  [nd1 EXCEPT !.ch[p] = left1, !.ch[p + 1] = c2]

\* Node::erase, the child c = children_[p] borrows through the splitter from
\* its right sibling
borrow_right(nd, p) ==
    LET c == At(nd.ch, p)
        right == At(nd.ch, p + 1)
        splitter == At(nd.keys, p)
        es == LinearSearchMap_erase(nd, splitter)
        c1 == LinearSearchMap_insert(c, splitter, es.value)
        rsmallest == At(right.keys, 0)
        er == LinearSearchMap_erase(right, rsmallest)
        nd1 == LinearSearchMap_insert(es.node, rsmallest, er.value)
        right1 == IF is_leaf(right) THEN er.node ELSE erase_child(er.node, 0)
        c2 == IF is_leaf(right) THEN c1
              ELSE insert_child(c1, Len(c1.ch), At(right.ch, 0))
    IN  [nd1 EXCEPT !.ch[p + 1] = c2, !.ch[p + 2] = right1]

\* Node::erase, the child c = children_[p] absorbs the splitter and its right
\* sibling, which is deleted
merge_right(nd, p) ==
    LET c == At(nd.ch, p)
        right == At(nd.ch, p + 1)
        splitter == At(nd.keys, p)
        es == LinearSearchMap_erase(nd, splitter)
        c1 == move_keys(LinearSearchMap_insert(c, splitter, es.value),
                        right, 0, 0, size(right))
        c2 == IF is_leaf(right) THEN c1 ELSE [c1 EXCEPT !.ch = c.ch \o right.ch]
    IN  erase_child([es.node EXCEPT !.ch[p + 1] = c2], p + 1)

\* "c->children_[next_child++] = c->children_[j]" for j = at..cnt-1, a copy
\* within one array from low to high positions
RECURSIVE shift_children(_, _, _, _)
shift_children(arr, next_child, at, cnt) ==
    IF at >= cnt THEN arr
    ELSE shift_children([arr EXCEPT ![next_child + 1] = At(arr, at)],
                        next_child + 1, at + 1, cnt)

\* "c->children_[j] = left->children_[j]" for j = at..left->num_children_-1
RECURSIVE assign_children(_, _, _)
assign_children(arr, from, at) ==
    IF at >= Len(from) THEN arr
    ELSE assign_children([arr EXCEPT ![at + 1] = At(from, at)], from, at + 1)

\* Node::erase, the child c = children_[p] absorbs the splitter and its left
\* sibling, which is deleted; c is children_[p - 1] afterwards
merge_left(nd, p) ==
    LET c == At(nd.ch, p)
        left == At(nd.ch, p - 1)
        splitter == At(nd.keys, p - 1)
        es == LinearSearchMap_erase(nd, splitter)
        c1 == move_keys(LinearSearchMap_insert(c, splitter, es.value),
                        left, 0, 0, size(left))
        total == Len(left.ch) + Len(c.ch)
        arr0 == c.ch \o unassigned(Len(left.ch))
        arr1 == shift_children(arr0, Len(left.ch), 0, Len(c.ch))
        arr2 == assign_children(arr1, left.ch, 0)
        c2 == IF is_leaf(left) THEN c1 ELSE [c1 EXCEPT !.ch = arr2]
    IN  erase_child([es.node EXCEPT !.ch[p + 1] = c2], p - 1)

\* preprocess_child leaving a child below the threshold as it is
preprocess_child_skipped(nd, p) == [node |-> nd, pos |-> p]

\* Node::erase, "preprocess child so we can safely remove from it":
\* [node, pos] with pos the position of the child c afterwards
preprocess_child(nd, p) ==
    LET has_left == p > 0
        has_right == p < Len(nd.ch) - 1
    IN  IF has_left /\ size(At(nd.ch, p - 1)) >= deletion_threshold_
        THEN [node |-> borrow_left(nd, p), pos |-> p]
        ELSE IF has_right /\ size(At(nd.ch, p + 1)) >= deletion_threshold_
        THEN [node |-> borrow_right(nd, p), pos |-> p]
        ELSE IF has_right
        THEN [node |-> merge_right(nd, p), pos |-> p]
        ELSE [node |-> merge_left(nd, p), pos |-> p - 1]

\* Node::erase, "merge key and all of z into y" for the key at position p - 1
\* of an internal node whose children y, z around it are both at the minimum
merge_around(nd, p, key) ==
    LET y == At(nd.ch, p - 1)
        zc == At(nd.ch, p)
        ek == LinearSearchMap_erase(nd, key)
        y1 == move_keys(LinearSearchMap_insert(y, key, ek.value), zc, 0, 0, size(zc))
        y2 == IF is_leaf(zc) THEN y1 ELSE [y1 EXCEPT !.ch = y.ch \o zc.ch]
    IN  erase_child([ek.node EXCEPT !.ch[p] = y2], p)

\* Node::erase: [ok, node]
RECURSIVE Node_erase(_, _)
Node_erase(nd, key) ==
    IF is_leaf(nd)
    THEN LET e == LinearSearchMap_erase(nd, key) IN [ok |-> e.ok, node |-> e.node]
    ELSE
      LET r == LinearSearchBase_predecessor(nd.keys, key)
          p == IF r.exists THEN r.pos + 1 ELSE 0
      IN
      IF r.exists /\ At(nd.keys, r.pos) = key
      THEN
        LET y == At(nd.ch, p - 1)
            zc == At(nd.ch, p)
        IN
        IF size(y) >= deletion_threshold_
        THEN LET c == rightmost_leaf(y)
                 key_pred == At(c.keys, size(c) - 1)
                 value_pred == At(c.vals, size(c) - 1)
                 nd1 == LinearSearchMap_insert(LinearSearchMap_erase(nd, key).node,
                                               key_pred, value_pred)
             IN  [ok |-> TRUE,
                  node |-> [nd1 EXCEPT !.ch[p] = Node_erase(y, key_pred).node]]
        ELSE IF size(zc) >= deletion_threshold_
        THEN LET c == leftmost_leaf(zc)
                 key_succ == At(c.keys, 0)
                 value_succ == At(c.vals, 0)
                 nd1 == LinearSearchMap_insert(LinearSearchMap_erase(nd, key).node,
                                               key_succ, value_succ)
             IN  [ok |-> TRUE,
                  node |-> [nd1 EXCEPT !.ch[p + 1] = Node_erase(zc, key_succ).node]]
        ELSE LET nd1 == merge_around(nd, p, key)
             IN  [ok |-> TRUE,
                  node |-> [nd1 EXCEPT !.ch[p] = Node_erase(At(nd1.ch, p - 1), key).node]]
      ELSE
        LET pre == IF size(At(nd.ch, p)) < deletion_threshold_
                   THEN preprocess_child(nd, p)
                   ELSE [node |-> nd, pos |-> p]
            e == Node_erase(At(pre.node.ch, pre.pos), key)
        IN  [ok |-> e.ok, node |-> [pre.node EXCEPT !.ch[pre.pos + 1] = e.node]]

\* BTree::erase returning true whatever Node::erase returned
BTree_erase_reports_true(t, key) ==
    LET e == Node_erase(t.root_, key)
        size1 == IF e.ok THEN t.size_ - 1 ELSE t.size_
        root1 == IF size(e.node) = 0 /\ Len(e.node.ch) > 0
                 THEN At(e.node.ch, 0)
                 ELSE e.node
    IN  [result |-> TRUE, tree |-> [size_ |-> size1, root_ |-> root1]]

\* BTree::erase decrementing size_ whatever the result
BTree_erase_always_counts(t, key) ==
    LET e == Node_erase(t.root_, key)
        root1 == IF size(e.node) = 0 /\ Len(e.node.ch) > 0
                 THEN At(e.node.ch, 0)
                 ELSE e.node
    IN  [result |-> e.ok, tree |-> [size_ |-> t.size_ - 1, root_ |-> root1]]

\* BTree::erase: [result, tree]
BTree_erase(t, key) ==
    LET e == Node_erase(t.root_, key)
        size1 == IF e.ok THEN t.size_ - 1 ELSE t.size_
        root1 == IF size(e.node) = 0 /\ Len(e.node.ch) > 0
                 THEN At(e.node.ch, 0)
                 ELSE e.node
    IN  [result |-> e.ok, tree |-> [size_ |-> size1, root_ |-> root1]]

\* predecessor_from descending into the child left of the predecessor found
RECURSIVE predecessor_from_left_child(_, _, _, _, _)
predecessor_from_left_child(node, x, exists, key, value) ==
    LET r == LinearSearchBase_predecessor(node.keys, x)
        key1 == IF r.exists THEN At(node.keys, r.pos) ELSE key
        value1 == IF r.exists THEN At(node.vals, r.pos) ELSE value
    IN  IF is_leaf(node)
        THEN [exists |-> exists \/ r.exists, key |-> key1, value |-> value1]
        ELSE IF r.exists /\ key1 = x
        THEN [exists |-> TRUE, key |-> key1, value |-> value1]
        ELSE predecessor_from_left_child(At(node.ch, IF r.exists THEN r.pos ELSE 0), x,
                                         exists \/ r.exists, key1, value1)

\* the loop of BTree::predecessor from the node it has descended to
RECURSIVE predecessor_from(_, _, _, _, _)
predecessor_from(node, x, exists, key, value) ==
    LET r == LinearSearchBase_predecessor(node.keys, x)
        key1 == IF r.exists THEN At(node.keys, r.pos) ELSE key
        value1 == IF r.exists THEN At(node.vals, r.pos) ELSE value
    IN  IF is_leaf(node)
        THEN [exists |-> exists \/ r.exists, key |-> key1, value |-> value1]
        ELSE IF r.exists /\ key1 = x
        THEN [exists |-> TRUE, key |-> key1, value |-> value1]
        ELSE predecessor_from(At(node.ch, IF r.exists THEN r.pos + 1 ELSE 0), x,
                              exists \/ r.exists, key1, value1)

BTree_predecessor(t, x) == predecessor_from(t.root_, x, FALSE, Uninit, Uninit)

\* successor_from descending into the first child when the node holds no
\* successor
RECURSIVE successor_from_first_child(_, _, _, _, _)
successor_from_first_child(node, x, exists, key, value) ==
    LET r == LinearSearchBase_successor(node.keys, x)
        key1 == IF r.exists THEN At(node.keys, r.pos) ELSE key
        value1 == IF r.exists THEN At(node.vals, r.pos) ELSE value
    IN  IF is_leaf(node)
        THEN [exists |-> exists \/ r.exists, key |-> key1, value |-> value1]
        ELSE IF r.exists /\ key1 = x
        THEN [exists |-> TRUE, key |-> key1, value |-> value1]
        ELSE successor_from_first_child(At(node.ch, IF r.exists THEN r.pos ELSE 0), x,
                                        exists \/ r.exists, key1, value1)

\* the loop of BTree::successor from the node it has descended to
RECURSIVE successor_from(_, _, _, _, _)
successor_from(node, x, exists, key, value) ==
    LET r == LinearSearchBase_successor(node.keys, x)
        key1 == IF r.exists THEN At(node.keys, r.pos) ELSE key
        value1 == IF r.exists THEN At(node.vals, r.pos) ELSE value
    IN  IF is_leaf(node)
        THEN [exists |-> exists \/ r.exists, key |-> key1, value |-> value1]
        ELSE IF r.exists /\ key1 = x
        THEN [exists |-> TRUE, key |-> key1, value |-> value1]
        ELSE successor_from(At(node.ch, IF r.exists THEN r.pos ELSE Len(node.ch) - 1), x,
                            exists \/ r.exists, key1, value1)

BTree_successor(t, x) == successor_from(t.root_, x, FALSE, Uninit, Uninit)

\* QueryResult::none(): { false, Key(), Value() }
QueryNone == [exists |-> FALSE, key |-> 0, value |-> 0]

BTree_size(t) == t.size_

BTree_empty(t) == t.size_ = 0

\* BTree::find without the comparison r.key == x
BTree_find_any(t, x) ==
    IF t.size_ = 0 THEN QueryNone
    ELSE LET r == BTree_predecessor(t, x)
         IN  IF r.exists THEN r ELSE QueryNone

BTree_find(t, x) ==
    IF BTree_size(t) = 0 THEN QueryNone
    ELSE LET r == BTree_predecessor(t, x)
         IN  IF r.exists /\ r.key = x THEN r ELSE QueryNone

BTree_contains(t, x) == BTree_find(t, x).exists

\* BTree::leftmost_leaf, BTree::rightmost_leaf
BTree_leftmost_leaf(t) == leftmost_leaf(t.root_)
BTree_rightmost_leaf(t) == rightmost_leaf(t.root_)

\* BTree::min_key, BTree::max_key (undefined on an empty container)
BTree_min_key(t) == At(BTree_leftmost_leaf(t).keys, 0)

max_key_of(rightmost) == At(rightmost.keys, size(rightmost) - 1)
BTree_max_key(t) == max_key_of(BTree_rightmost_leaf(t))

\* BTree::max returning the first entry of the rightmost leaf
max_of_first(rightmost) ==
    [exists |-> TRUE, key |-> At(rightmost.keys, 0), value |-> At(rightmost.vals, 0)]
BTree_max_first(t) ==
    IF BTree_size(t) = 0 THEN QueryNone ELSE max_of_first(BTree_rightmost_leaf(t))

\* BTree::min, BTree::max
min_of(leftmost) ==
    [exists |-> TRUE, key |-> At(leftmost.keys, 0), value |-> At(leftmost.vals, 0)]
BTree_min(t) ==
    IF BTree_size(t) = 0 THEN QueryNone ELSE min_of(BTree_leftmost_leaf(t))

max_of(rightmost) ==
    [exists |-> TRUE,
     key |-> At(rightmost.keys, size(rightmost) - 1),
     value |-> At(rightmost.vals, size(rightmost) - 1)]
BTree_max(t) ==
    IF BTree_size(t) = 0 THEN QueryNone ELSE max_of(BTree_rightmost_leaf(t))

----------------------------------------------------------------------------
(* ordered/range_marking/internal: bucket_base.hpp, bucket_map.hpp,         *)
(* marked_impl.hpp. A pack word is the set of its set bits, 0..PACK_BITS-1; *)
(* values_ is the function from the indices written so far to the value    *)
(* written, every other entry being the Value() make_unique left there.    *)

PACK_BITS == 64

\* idiv_ceil.hpp: the quotient a / b rounded up
idiv_ceil(a, b) == (a + b - 1) \div b

\* nullptr in buckets_: no bucket, told from a bucket by its capacity 0
Null == [capacity_ |-> 0, size_ |-> 0, data_ |-> <<>>, values_ |-> <<>>]

replace_at(arr, p, v) == SubSeq(arr, 1, p) \o <<v>> \o SubSeq(arr, p + 2, Len(arr))

RECURSIVE filled(_, _)
filled(m, v) == IF m = 0 THEN <<>> ELSE Append(filled(m - 1, v), v)

num_packs_(capacity) == idiv_ceil(capacity, PACK_BITS)

\* BucketMap(): BucketBase() with size_ 0 and all packs 0, values_ allocated
BucketMap(capacity) ==
    [capacity_ |-> capacity,
     size_ |-> 0,
     data_ |-> filled(num_packs_(capacity), {}),
     values_ |-> <<>>]

to_index(capacity, key) == key % capacity

get_bit(data, x) == (x % PACK_BITS) \in At(data, x \div PACK_BITS)

set_bit(data, x, b) ==
    replace_at(data, x \div PACK_BITS,
               IF b THEN At(data, x \div PACK_BITS) \cup {x % PACK_BITS}
                    ELSE At(data, x \div PACK_BITS) \ {x % PACK_BITS})

lowest_set_bit(pack) == CHOOSE j \in pack : \A k \in pack : j <= k
highest_set_bit(pack) == CHOOSE j \in pack : \A k \in pack : j >= k

\* BucketMap::insert: BucketBase::insert, then values_[x] = value
BucketMap_insert(bucket, x, value) ==
    [capacity_ |-> bucket.capacity_,
     size_ |-> bucket.size_ + 1,
     data_ |-> set_bit(bucket.data_, x, TRUE),
     values_ |-> [y \in DOMAIN bucket.values_ \cup {x} |->
                      IF y = x THEN value ELSE bucket.values_[y]]]

\* BucketBase::erase: the bucket afterwards and the value returned
BucketBase_erase(bucket, x) ==
    [bucket |-> [capacity_ |-> bucket.capacity_,
                 size_ |-> IF get_bit(bucket.data_, x) THEN bucket.size_ - 1 ELSE bucket.size_,
                 data_ |-> set_bit(bucket.data_, x, FALSE),
                 values_ |-> bucket.values_],
     result |-> get_bit(bucket.data_, x)]

BucketBase_contains(bucket, x) == get_bit(bucket.data_, x)

BucketMap_value(bucket, x) ==
    IF x \in DOMAIN bucket.values_ THEN bucket.values_[x] ELSE 0

\* BucketBase::predecessor, "while(m)": the bits j, j-1, .., 0 of the pack
RECURSIVE scan_down(_, _, _)
scan_down(pack, pi, j) ==
    IF j < 0 THEN LocalNone
    ELSE IF j \in pack THEN [exists |-> TRUE, pos |-> pi * PACK_BITS + j]
    ELSE scan_down(pack, pi, j - 1)

\* BucketBase::predecessor, "while(i > 0)": the highest set previous bit
RECURSIVE previous_pack(_, _)
previous_pack(data, pi) ==
    IF pi <= 0 THEN LocalNone
    ELSE IF At(data, pi - 1) # {}
    THEN [exists |-> TRUE, pos |-> (pi - 1) * PACK_BITS + highest_set_bit(At(data, pi - 1))]
    ELSE previous_pack(data, pi - 1)

own_pack_down(data, x) ==
    IF At(data, x \div PACK_BITS) # {}
    THEN scan_down(At(data, x \div PACK_BITS), x \div PACK_BITS, x % PACK_BITS)
    ELSE LocalNone

or_else(r, other) == IF r.exists THEN r ELSE other

BucketBase_predecessor(bucket, x) ==
    or_else(own_pack_down(bucket.data_, x), previous_pack(bucket.data_, x \div PACK_BITS))

\* BucketBase::successor, "while(j < PACK_BITS)": the bits j, j+1, .. of the pack
RECURSIVE scan_up(_, _, _)
scan_up(pack, pi, j) ==
    IF j >= PACK_BITS THEN LocalNone
    ELSE IF j \in pack THEN [exists |-> TRUE, pos |-> pi * PACK_BITS + j]
    ELSE scan_up(pack, pi, j + 1)

\* BucketBase::successor, "++i; while(i < num_packs_)": pi is i after ++i
RECURSIVE next_pack(_, _)
next_pack(data, pi) ==
    IF pi >= Len(data) THEN LocalNone
    ELSE IF At(data, pi) # {}
    THEN [exists |-> TRUE, pos |-> pi * PACK_BITS + lowest_set_bit(At(data, pi))]
    ELSE next_pack(data, pi + 1)

own_pack_up(data, x) ==
    IF At(data, x \div PACK_BITS) # {}
    THEN scan_up(At(data, x \div PACK_BITS), x \div PACK_BITS, x % PACK_BITS)
    ELSE LocalNone

BucketBase_successor(bucket, x) ==
    or_else(own_pack_up(bucket.data_, x), next_pack(bucket.data_, x \div PACK_BITS + 1))

\* BucketBase::min, BucketBase::max; no result on a bucket without a set bit
\* ("assert(false)")
first_bit(r) == IF r.exists THEN r.pos ELSE OutOfBounds
BucketBase_min(bucket) == first_bit(next_pack(bucket.data_, 0))
BucketBase_max(bucket) == first_bit(previous_pack(bucket.data_, Len(bucket.data_)))

\* RangeMarker(max_key) over buckets of the given capacity
RangeMarker(max_key, capacity) ==
    [sampling_ |-> capacity,
     num_buckets_ |-> idiv_ceil(max_key, capacity),
     buckets_ |-> filled(idiv_ceil(max_key, capacity), Null),
     max_bucket_num_ |-> 0,
     size_ |-> 0]

to_key(m, x, bucket_num) == bucket_num * m.sampling_ + x

bucket_for(m, key) == key \div m.sampling_

\* "assert(bucket_num < num_buckets_)" of insert, erase and the queries
bucket_allocated(m, key) == bucket_for(m, key) < m.num_buckets_

max_of_two(a, b) == IF a >= b THEN a ELSE b

\* RangeMarker::insert with the bucket found or created
insert_into(m, bucket_num, bucket, x, value) ==
    [sampling_ |-> m.sampling_,
     num_buckets_ |-> m.num_buckets_,
     buckets_ |-> replace_at(m.buckets_, bucket_num, BucketMap_insert(bucket, x, value)),
     max_bucket_num_ |-> IF At(m.buckets_, bucket_num) = Null
                         THEN max_of_two(bucket_num, m.max_bucket_num_)
                         ELSE m.max_bucket_num_,
     size_ |-> m.size_ + 1]

RangeMarker_insert(m, key, value) ==
    insert_into(m, bucket_for(m, key),
                IF At(m.buckets_, bucket_for(m, key)) = Null
                THEN BucketMap(m.sampling_)
                ELSE At(m.buckets_, bucket_for(m, key)),
                to_index(m.sampling_, key), value)

\* RangeMarker::erase with the bucket found, e being what the bucket's erase
\* gave: the container afterwards and the value returned
erase_from(m, bucket_num, e) ==
    IF e.result
    THEN [tree |-> [sampling_ |-> m.sampling_,
                    num_buckets_ |-> m.num_buckets_,
                    buckets_ |-> replace_at(m.buckets_, bucket_num,
                                            IF e.bucket.size_ = 0 THEN Null ELSE e.bucket),
                    max_bucket_num_ |-> m.max_bucket_num_,
                    size_ |-> m.size_ - 1],
          result |-> TRUE]
    ELSE [tree |-> m, result |-> FALSE]

RangeMarker_erase(m, key) ==
    IF At(m.buckets_, bucket_for(m, key)) # Null
    THEN erase_from(m, bucket_for(m, key),
                    BucketBase_erase(At(m.buckets_, bucket_for(m, key)),
                                     to_index(m.sampling_, key)))
    ELSE [tree |-> m, result |-> FALSE]

\* RangeMarker::clear
RangeMarker_clear(m) ==
    [sampling_ |-> m.sampling_,
     num_buckets_ |-> m.num_buckets_,
     buckets_ |-> filled(m.num_buckets_, Null),
     max_bucket_num_ |-> 0,
     size_ |-> m.size_]

\* the entry of a bucket at index x as a query result
entry_of(m, bucket_num, bucket, x) ==
    [exists |-> TRUE, key |-> to_key(m, x, bucket_num), value |-> BucketMap_value(bucket, x)]

local_entry(m, bucket_num, bucket, r) ==
    IF r.exists THEN entry_of(m, bucket_num, bucket, r.pos) ELSE QueryNone

\* "find predecessor in corresponding bucket", "find successor in corresponding bucket"
own_bucket(m, key, dir) ==
    IF At(m.buckets_, bucket_for(m, key)) = Null THEN QueryNone
    ELSE local_entry(m, bucket_for(m, key), At(m.buckets_, bucket_for(m, key)),
                     IF dir = "predecessor"
                     THEN BucketBase_predecessor(At(m.buckets_, bucket_for(m, key)),
                                                 to_index(m.sampling_, key))
                     ELSE BucketBase_successor(At(m.buckets_, bucket_for(m, key)),
                                               to_index(m.sampling_, key)))

\* RangeMarker::predecessor, "while(bucket_num)"
RECURSIVE preceding_bucket(_, _)
preceding_bucket(m, bucket_num) ==
    IF bucket_num = 0 THEN QueryNone
    ELSE IF At(m.buckets_, bucket_num - 1) # Null
    THEN entry_of(m, bucket_num - 1, At(m.buckets_, bucket_num - 1),
                  BucketBase_max(At(m.buckets_, bucket_num - 1)))
    ELSE preceding_bucket(m, bucket_num - 1)

\* succeeding_bucket returning the maximum of the bucket it finds
RECURSIVE succeeding_bucket_max(_, _)
succeeding_bucket_max(m, bucket_num) ==
    IF bucket_num >= m.max_bucket_num_ THEN QueryNone
    ELSE IF At(m.buckets_, bucket_num + 1) # Null
    THEN entry_of(m, bucket_num + 1, At(m.buckets_, bucket_num + 1),
                  BucketBase_max(At(m.buckets_, bucket_num + 1)))
    ELSE succeeding_bucket_max(m, bucket_num + 1)

\* RangeMarker::successor, "while(bucket_num < max_bucket_num_)"
RECURSIVE succeeding_bucket(_, _)
succeeding_bucket(m, bucket_num) ==
    IF bucket_num >= m.max_bucket_num_ THEN QueryNone
    ELSE IF At(m.buckets_, bucket_num + 1) # Null
    THEN entry_of(m, bucket_num + 1, At(m.buckets_, bucket_num + 1),
                  BucketBase_min(At(m.buckets_, bucket_num + 1)))
    ELSE succeeding_bucket(m, bucket_num + 1)

\* the queries, for a key that passes "assert(bucket_num < num_buckets_)"
RangeMarker_predecessor(m, key) ==
    or_else(own_bucket(m, key, "predecessor"), preceding_bucket(m, bucket_for(m, key)))

RangeMarker_successor(m, key) ==
    or_else(own_bucket(m, key, "successor"), succeeding_bucket(m, bucket_for(m, key)))

RangeMarker_contains(m, key) ==
    IF At(m.buckets_, bucket_for(m, key)) # Null
    THEN BucketBase_contains(At(m.buckets_, bucket_for(m, key)), to_index(m.sampling_, key))
    ELSE FALSE

RangeMarker_find(m, key) ==
    IF RangeMarker_contains(m, key)
    THEN [exists |-> TRUE, key |-> key,
          value |-> BucketMap_value(At(m.buckets_, bucket_for(m, key)),
                                    to_index(m.sampling_, key))]
    ELSE QueryNone

RangeMarker_size(m) == m.size_

RangeMarker_empty(m) == m.size_ = 0

\* RangeMarker::min_bucket, max_bucket: the loops from bucket bi on, ending
\* in "assert(false); return -1" when no bucket is found
RECURSIVE min_bucket_from(_, _)
min_bucket_from(m, bi) ==
    IF bi > m.max_bucket_num_ \/ bi >= m.num_buckets_ THEN 0 - 1
    ELSE IF At(m.buckets_, bi) # Null THEN bi
    ELSE min_bucket_from(m, bi + 1)

RECURSIVE max_bucket_from(_, _)
max_bucket_from(m, bi) ==
    IF bi <= 0 \/ bi - 1 >= m.num_buckets_ THEN 0 - 1
    ELSE IF At(m.buckets_, bi - 1) # Null THEN bi - 1
    ELSE max_bucket_from(m, bi - 1)

min_bucket(m) == min_bucket_from(m, 0)
max_bucket(m) == max_bucket_from(m, m.max_bucket_num_ + 1)

\* buckets_[-1] dereferenced: no defined result
UndefinedResult == [exists |-> TRUE, key |-> OutOfBounds, value |-> OutOfBounds]

\* what min, max, min_key and max_key make of the bucket number found
min_in(m, bucket_num) ==
    IF bucket_num < 0 THEN UndefinedResult
    ELSE entry_of(m, bucket_num, At(m.buckets_, bucket_num),
                  BucketBase_min(At(m.buckets_, bucket_num)))

max_in(m, bucket_num) ==
    IF bucket_num < 0 THEN UndefinedResult
    ELSE entry_of(m, bucket_num, At(m.buckets_, bucket_num),
                  BucketBase_max(At(m.buckets_, bucket_num)))

key_of(r) == r.key

RangeMarker_min_key(m) == key_of(min_in(m, min_bucket(m)))
RangeMarker_max_key(m) == key_of(max_in(m, max_bucket(m)))

RangeMarker_min(m) == IF RangeMarker_size(m) = 0 THEN QueryNone ELSE min_in(m, min_bucket(m))
RangeMarker_max(m) == IF RangeMarker_size(m) = 0 THEN QueryNone ELSE max_in(m, max_bucket(m))

----------------------------------------------------------------------------
(* rmq/include/rmq: compare.hpp, rmq_bender_farach_colton.hpp, rmq.hpp      *)
(* The structures are immutable after construction; a table entry is the   *)
(* value the constructor stores at that place, computed from the data.     *)

\* compare<true>, compare_strict<true>
leq(a, b) == a <= b
lt(a, b) == a < b

\* std::bit_width(d) - 1 for d >= 1
RECURSIVE log2_floor(_)
log2_floor(d) == IF d <= 1 THEN 0 ELSE 1 + log2_floor(d \div 2)

RECURSIVE pow2(_)
pow2(e) == IF e = 0 THEN 1 ELSE 2 * pow2(e - 1)

\* RMQ::naive_rmq(beg, end, min&) with the scan at position at: [pos, min]
RECURSIVE naive_scan(_, _, _, _, _)
naive_scan(data, at, end, min_pos, min) ==
    IF at >= end THEN [pos |-> min_pos, min |-> min]
    ELSE IF lt(At(data, at), min)
    THEN naive_scan(data, at + 1, end, at, At(data, at))
    ELSE naive_scan(data, at + 1, end, min_pos, min)

naive_rmq(data, beg, end) == naive_scan(data, beg + 1, end, beg, At(data, beg))

\* RMQ constructor: num_blocks, block_min_[block], block_min_pos_[block]
num_blocks(m) == (m - 1) \div block_size_ + 1

block_end(m, block) ==
    IF block * block_size_ + block_size_ < m THEN block * block_size_ + block_size_ ELSE m

block_min_pos_(data, block) ==
    naive_rmq(data, block * block_size_, block_end(Len(data), block)).pos

block_min_(data, block) ==
    naive_rmq(data, block * block_size_, block_end(Len(data), block)).min

\* the block minima as the array the RMQ constructor hands to block_rmq_:
\* block_min_[0..m)
RECURSIVE block_minima(_, _)
block_minima(data, m) ==
    IF m = 0 THEN <<>> ELSE Append(block_minima(data, m - 1), block_min_(data, m - 1))


\* arr[p] for an array of positions or values, OutOfBounds outside of it
read(arr, p) == IF 0 <= p /\ p < Len(arr) THEN arr[p + 1] ELSE OutOfBounds

\* rmq_[level] for an array of levels, no level outside of it
read_level(levels, level) ==
    IF 0 <= level /\ level < Len(levels) THEN levels[level + 1] ELSE <<>>

\* "leq(data[a], data[b]) ? a : b"
leq_pos(D, a, b) ==
    IF read(D, a) = OutOfBounds \/ read(D, b) = OutOfBounds THEN OutOfBounds
    ELSE IF leq(read(D, a), read(D, b)) THEN a ELSE b

\* RMQBenderFarachColton constructor, "build first level": rmq_[0][0..m)
RECURSIVE first_level(_, _)
first_level(D, m) ==
    IF m = 0 THEN <<>>
    ELSE Append(first_level(D, m - 1), leq_pos(D, m - 1, m))

\* RMQBenderFarachColton constructor, the inner loop of "build higher
\* levels": rmq_[level][0..m) from prev = rmq_[level-1]
RECURSIVE higher_level(_, _, _, _)
higher_level(D, prev, interval_size, m) ==
    IF m = 0 THEN <<>>
    ELSE Append(higher_level(D, prev, interval_size, m - 1),
                leq_pos(D, read(prev, m - 1), read(prev, m - 1 + interval_size)))

\* the level after the levels built so far
append_level(D, below) ==
    Append(below,
           higher_level(D, below[Len(below)], pow2(Len(below)),
                        Len(D) - (2 * pow2(Len(below)) - 1)))

\* RMQBenderFarachColton constructor: rmq_[0..num)
RECURSIVE build_levels(_, _)
build_levels(D, num) ==
    IF num = 1 THEN <<first_level(D, Len(D) - 1)>>
    ELSE append_level(D, build_levels(D, num - 1))

\* RMQBenderFarachColton(data, n): rmq_ as allocated, num_levels levels;
\* overflow records that rmq_[0] was written with num_levels = 0
RMQBenderFarachColton(D) ==
    [rmq_ |-> IF log2_floor(Len(D)) >= 1 THEN build_levels(D, log2_floor(Len(D))) ELSE <<>>,
     overflow |-> log2_floor(Len(D)) < 1]

\* RMQBenderFarachColton::rmq reading rmq_[level] instead of rmq_[level-1]
RMQBenderFarachColton_rmq_level(D, rmq_, bi, bj) ==
    IF bi = bj THEN bi
    ELSE leq_pos(D,
                 read(read_level(rmq_, log2_floor(bj - bi + 1)), bi),
                 read(read_level(rmq_, log2_floor(bj - bi + 1)),
                      bj + 1 - pow2(log2_floor(bj - bi + 1))))

\* RMQBenderFarachColton::rmq(i, j) on the array D with the table rmq_
RMQBenderFarachColton_rmq(D, rmq_, bi, bj) ==
    IF bi = bj THEN bi
    ELSE leq_pos(D,
                 read(read_level(rmq_, log2_floor(bj - bi + 1) - 1), bi),
                 read(read_level(rmq_, log2_floor(bj - bi + 1) - 1),
                      bj + 1 - pow2(log2_floor(bj - bi + 1))))

\* block_rmq_(left_block, right_block) of RMQ::rmq: the table is the one the
\* RMQ constructor built over block_min_
block_rmq_(block_min, left_block, right_block) ==
    RMQBenderFarachColton_rmq(block_min, RMQBenderFarachColton(block_min).rmq_,
                              left_block, right_block)

\* RMQ::rmq(i, j, min&) taking the right tail on a tie with the rest
RMQ_rmq_min_right_ties(data, qi, qj) ==
    IF qi = qj THEN [pos |-> qi, min |-> Uninit]
    ELSE IF qj - qi <= 3 * block_size_ THEN naive_rmq(data, qi, qj + 1)
    ELSE LET left_end == (qi \div block_size_ + 1) * block_size_
             left == naive_rmq(data, qi, left_end)
             right_beg == (qj \div block_size_) * block_size_
             right == naive_rmq(data, right_beg, qj + 1)
             left_block == (qi \div block_size_) + 1
             right_block == (qj \div block_size_) - 1
             mid_min_pos == block_min_pos_(data,
                                block_rmq_(block_minima(data, num_blocks(Len(data))),
                                           left_block, right_block))
             mid_min == At(data, mid_min_pos)
             m1 == IF lt(mid_min, left.min)
                   THEN [pos |-> mid_min_pos, min |-> mid_min]
                   ELSE left
         IN  IF leq(right.min, m1.min) THEN right ELSE m1

\* RMQ::rmq(i, j, min&): [pos, min]; min is left unassigned when i = j
RMQ_rmq_min(data, qi, qj) ==
    IF qi = qj THEN [pos |-> qi, min |-> Uninit]
    ELSE IF qj - qi <= 3 * block_size_ THEN naive_rmq(data, qi, qj + 1)
    ELSE LET left_end == (qi \div block_size_ + 1) * block_size_
             left == naive_rmq(data, qi, left_end)
             right_beg == (qj \div block_size_) * block_size_
             right == naive_rmq(data, right_beg, qj + 1)
             left_block == (qi \div block_size_) + 1
             right_block == (qj \div block_size_) - 1
             mid_min_pos == block_min_pos_(data,
                                block_rmq_(block_minima(data, num_blocks(Len(data))),
                                           left_block, right_block))
             mid_min == At(data, mid_min_pos)
             m1 == IF lt(mid_min, left.min)
                   THEN [pos |-> mid_min_pos, min |-> mid_min]
                   ELSE left
         IN  IF lt(right.min, m1.min) THEN right ELSE m1

\* RMQ::rmq(i, j) and operator()
RMQ_rmq(data, qi, qj) == RMQ_rmq_min(data, qi, qj).pos

----------------------------------------------------------------------------
(* lzend.hpp: parse                                                        *)

\* std::reverse of the text
RECURSIVE reversed(_, _)
reversed(text, m) ==
    IF m = 0 THEN <<>> ELSE Append(reversed(text, m - 1), text[Len(text) + 1 - m])

reverse(text) == reversed(text, Len(text))

\* length of the longest common prefix of the suffixes of text at a and b,
\* given that they agree on the first l characters
RECURSIVE common_prefix(_, _, _, _)
common_prefix(text, a, b, l) ==
    IF a + l < Len(text) /\ b + l < Len(text) /\ At(text, a + l) = At(text, b + l)
    THEN common_prefix(text, a, b, l + 1)
    ELSE l

\* the suffix at a is lexicographically smaller than the suffix at b # a
suffix_less(text, a, b) ==
    LET l == common_prefix(text, a, b, 0)
    IN  IF a + l = Len(text) THEN TRUE
        ELSE IF b + l = Len(text) THEN FALSE
        ELSE At(text, a + l) < At(text, b + l)

suffix_rank(text, a) ==
    Cardinality({b \in 0..(Len(text) - 1) : b # a /\ suffix_less(text, b, a)})

\* libsais(rs, sa, n): the suffix array of the text, sa[0..m)
RECURSIVE suffix_array(_, _)
suffix_array(text, m) ==
    IF m = 0 THEN <<>>
    ELSE Append(suffix_array(text, m - 1),
                CHOOSE a \in 0..(Len(text) - 1) : suffix_rank(text, a) = m - 1)

libsais(text) == suffix_array(text, Len(text))

\* libsais_plcp followed by libsais_lcp: LCP[0] = 0 and LCP[r] the longest
\* common prefix of the suffixes of rank r - 1 and r, lcp[0..m)
RECURSIVE lcp_array(_, _, _)
lcp_array(text, sa, m) ==
    IF m = 0 THEN <<>>
    ELSE Append(lcp_array(text, sa, m - 1),
                IF m = 1 THEN 0
                ELSE common_prefix(text, At(sa, m - 2), At(sa, m - 1), 0))

libsais_lcp(text, sa) == lcp_array(text, sa, Len(text))

\* "for(Index i = 0; i < n; i++) isa[n-sa[i]-1] = i" from iteration r on
RECURSIVE permute(_, _, _)
permute(arr, sa, r) ==
    IF r >= Len(sa) THEN arr
    ELSE permute([arr EXCEPT ![Len(sa) - At(sa, r) - 1 + 1] = r], sa, r + 1)

\* isa holds the PLCP array before the loop overwrites every entry of it
permuted_isa(plcp, sa) == permute(plcp, sa, 0)

Phrase(lnk, len, ext) == [lnk |-> lnk, len |-> len, ext |-> ext]

Candidate(lex_pos, lnk, len) == [lex_pos |-> lex_pos, lnk |-> lnk, len |-> len]

\* lex_smaller_phrase taking the LCP entry at x instead of the range minimum
lex_smaller_phrase_adjacent(x) ==
    LET r == BTree_predecessor(marked, x - 1)
    IN  IF r.exists
        THEN Candidate(r.key, r.value, At(lcp, x))
        ELSE Candidate(0, 0, 0)

lex_smaller_phrase(x) ==
    LET r == BTree_predecessor(marked, x - 1)
    IN  IF r.exists
        THEN Candidate(r.key, r.value, At(lcp, RMQ_rmq(lcp, r.key + 1, x)))
        ELSE Candidate(0, 0, 0)

lex_greater_phrase(x) ==
    LET r == BTree_successor(marked, x + 1)
    IN  IF r.exists
        THEN Candidate(r.key, r.value, At(lcp, RMQ_rmq(lcp, x + 1, r.key)))
        ELSE Candidate(0, 0, 0)

len1 == At(parsing, z).len
len2 == len1 + (IF z > 0 THEN At(parsing, z - 1).len ELSE 0)
isa_last == At(isa, i - 1)

\* the std::function<Candidate(Index)> passed to find_copy_source, named by
\* its direction
apply_f(f, x) ==
    IF f = "lex_smaller_phrase" THEN lex_smaller_phrase(x) ELSE lex_greater_phrase(x)

\* find_copy_source without the re-query for a candidate that is phrase z-1
find_copy_source_no_requery(f, pp) ==
    LET c == apply_f(f, isa_last)
    IN  IF c.len >= len1
        THEN [p1 |-> c.lnk,
              p2 |-> IF i > len1 /\ c.len >= len2 THEN c.lnk ELSE pp.p2]
        ELSE pp

\* find_copy_source asking for a candidate strictly longer than len1
find_copy_source_strict(f, pp) ==
    LET c == apply_f(f, isa_last)
    IN  IF c.len > len1
        THEN LET c2 == IF i > len1 /\ c.lnk = z - 1 THEN apply_f(f, c.lex_pos) ELSE c
             IN  [p1 |-> c.lnk,
                  p2 |-> IF i > len1 /\ c2.len >= len2 THEN c2.lnk ELSE pp.p2]
        ELSE pp

\* merge_source comparing the candidate with len1 instead of len2
merge_source_len1(pp, c) == IF i > len1 /\ c.len >= len1 THEN c.lnk ELSE pp.p2

\* find_copy_source, "if(c.len >= len2) p2 = c.lnk" under i > len1, c being
\* the candidate after the possible re-query: the value of p2 afterwards
merge_source(pp, c) == IF i > len1 /\ c.len >= len2 THEN c.lnk ELSE pp.p2

\* extend_source without the test "c.len >= len1"
extend_source_untested(f, pp, c) ==
    [p1 |-> c.lnk,
     p2 |-> merge_source(pp, IF i > len1 /\ c.lnk = z - 1
                             THEN apply_f(f, c.lex_pos)
                             ELSE c)]

\* find_copy_source from "if(c.len >= len1)" on, c being f(isa_last)
extend_source(f, pp, c) ==
    IF c.len >= len1
    THEN [p1 |-> c.lnk,
          p2 |-> merge_source(pp, IF i > len1 /\ c.lnk = z - 1
                                  THEN apply_f(f, c.lex_pos)
                                  ELSE c)]
    ELSE pp

\* the lambda find_copy_source applied to f with the captured p1, p2 = pp:
\* the values of p1, p2 afterwards
find_copy_source(f, pp) == extend_source(f, pp, apply_f(f, isa_last))

\* "if(p1 == -1 || p2 == -1) find_copy_source(lex_greater_phrase)", first
\* being p1, p2 after the first call
second_call(first) ==
    IF first.p1 = 0 - 1 \/ first.p2 = 0 - 1
    THEN find_copy_source("lex_greater_phrase", first)
    ELSE first

\* p1, p2 at the case distinction of the iteration
copy_source ==
    second_call(find_copy_source("lex_smaller_phrase", [p1 |-> 0 - 1, p2 |-> 0 - 1]))

\* s.length(), a size_t, as its upper and lower 32 bits; the bytes of the
\* string past the first Len(str) are further copies of its first byte
length(str) == [high |-> length_high, low |-> Len(str)]

\* "Index const n = s.length()": the conversion of the size_t to the int32_t
\* Index keeps the lower 32 bits (below 2^31 for every str held here)
Index_of(len) == len.low

\* "rmq::RMQ<Index> rmq(lcp.get(), n)": the constructor computes
\* (n - 1) / block_size_ + 1 in size_t, where n - 1 wraps to 2^64 - 1 for
\* n = 0, and make_unique of that many entries throws std::bad_alloc
RMQ_bad_alloc(m) == m = 0

\* make_unique<Index[]>(m): m value-initialised entries
RECURSIVE make_unique(_)
make_unique(m) == IF m = 0 THEN <<>> ELSE Append(make_unique(m - 1), 0)

MaxLen == 10
MaxLenTernary == 6

\* the inputs: every string of 1..MaxLen bytes over 'a', 'b' and every string
\* of 1..MaxLenTernary bytes over 'a', 'b', 'c'
Inputs ==
    UNION ({[1..len -> {97, 98}] : len \in 1..MaxLen}
           \cup {[1..len -> {97, 98, 99}] : len \in 1..MaxLenTernary})

BTreeIdle == map = NewBTree /\ ref = <<>>

\* parse(s) is called with one of the inputs
Init ==
    /\ s \in Inputs
    /\ n = 0
    /\ lcp = <<>>
    /\ isa = <<>>
    /\ degree_ = 65
    /\ block_size_ = 64
    /\ marked = NewBTree
    /\ parsing = <<>>
    /\ z = 0
    /\ i = 0
    /\ cases = <<>>
    /\ pc = "prepare"
    /\ cout = <<>>
    /\ BTreeIdle
    /\ RMQIdle
    /\ MarkerIdle
    /\ Nominal

\* the lines parse writes up to the construction of the RMQ, and up to the
\* main loop
cout_until_RMQ ==
    IF print_progress
    THEN <<"LZ-End input: n=", "construct suffix array ...", "construct LCP array ...",
           "construct RMQ ...">>
    ELSE <<>>

cout_until_loop ==
    cout_until_RMQ
    \o (IF print_progress THEN <<"construct permuted inverse suffix array ...">> ELSE <<>>)
    \o <<"parse ... ">>

\* Prepare pushing an initial phrase of length 0
Prepare_empty_phrase ==
    /\ pc = "prepare"
    /\ libsais_result = 0
    /\ n' = Index_of(length(s))
    /\ ~RMQ_bad_alloc(n')
    /\ LET rs == reverse(s)
           sa == libsais(rs)
       IN  /\ lcp' = libsais_lcp(rs, sa)
           /\ isa' = permuted_isa(unassigned(Len(s)), sa)
    /\ marked' = NewBTree
    /\ parsing' = <<Phrase(0, 0, At(s, 0))>>
    /\ z' = 0
    /\ i' = 1
    /\ pc' = "loop"
    /\ cout' = cout_until_loop
    /\ UNCHANGED <<config, evars, mvars, rvars, map, ref, s, cases>>

\* parse up to the main loop: the reversed text, its suffix and LCP arrays,
\* the permuted inverse suffix array, the empty marked map, the initial
\* phrase, and the loop variable at 1
Prepare ==
    /\ pc = "prepare"
    /\ libsais_result = 0
    /\ n' = Index_of(length(s))
    /\ ~RMQ_bad_alloc(n')
    /\ LET rs == reverse(s)
           sa == libsais(rs)
       IN  /\ lcp' = libsais_lcp(rs, sa)
           /\ isa' = permuted_isa(unassigned(Len(s)), sa)
    /\ marked' = NewBTree
    /\ parsing' = <<Phrase(0, 1, At(s, 0))>>
    /\ z' = 0
    /\ i' = 1
    /\ pc' = "loop"
    /\ cout' = cout_until_loop
    /\ UNCHANGED <<config, evars, mvars, rvars, map, ref, s, cases>>

\* Merge without "marked.erase(isa[i - 1 - len1])"
Merge_keeps_mark ==
    /\ pc = "loop" /\ i < n
    /\ \E src \in {copy_source} :
           /\ src.p2 # 0 - 1
           /\ parsing' = [SubSeq(parsing, 1, Len(parsing) - 1) EXCEPT
                             ![Len(parsing) - 1] = Phrase(src.p2, len2 + 1, At(s, i))]
    /\ z' = z - 1
    /\ i' = i + 1
    /\ cases' = Append(cases, "merge")
    /\ UNCHANGED <<config, evars, mvars, rvars, map, ref, cout, s, n, isa, lcp, marked, pc>>

\* Merge without "--z"
Merge_keeps_z ==
    /\ pc = "loop" /\ i < n
    /\ \E src \in {copy_source} :
           /\ src.p2 # 0 - 1
           /\ parsing' = [SubSeq(parsing, 1, Len(parsing) - 1) EXCEPT
                             ![Len(parsing) - 1] = Phrase(src.p2, len2 + 1, At(s, i))]
    /\ marked' = BTree_erase(marked, At(isa, i - 1 - len1)).tree
    /\ i' = i + 1
    /\ cases' = Append(cases, "merge")
    /\ UNCHANGED <<config, evars, mvars, rvars, map, ref, cout, s, n, isa, lcp, z, pc>>

\* Merge writing the merged phrase over the popped one's predecessor's
\* predecessor as well
Merge_rewrites_below ==
    /\ pc = "loop" /\ i < n
    /\ \E src \in {copy_source} :
           /\ src.p2 # 0 - 1
           /\ parsing' = [k \in 1..(Len(parsing) - 1) |->
                             IF k >= Len(parsing) - 2
                             THEN Phrase(src.p2, len2 + 1, At(s, i))
                             ELSE parsing[k]]
    /\ marked' = BTree_erase(marked, At(isa, i - 1 - len1)).tree
    /\ z' = z - 1
    /\ i' = i + 1
    /\ cases' = Append(cases, "merge")
    /\ UNCHANGED <<config, evars, mvars, rvars, map, ref, cout, s, n, isa, lcp, pc>>

\* one iteration of the main loop, case "merge last two phrases"
Merge ==
    /\ pc = "loop" /\ i < n
    /\ \E src \in {copy_source} :
           /\ src.p2 # 0 - 1
           /\ parsing' = [SubSeq(parsing, 1, Len(parsing) - 1) EXCEPT
                             ![Len(parsing) - 1] = Phrase(src.p2, len2 + 1, At(s, i))]
    /\ marked' = BTree_erase(marked, At(isa, i - 1 - len1)).tree
    /\ z' = z - 1
    /\ i' = i + 1
    /\ cases' = Append(cases, "merge")
    /\ UNCHANGED <<config, evars, mvars, rvars, map, ref, cout, s, n, isa, lcp, pc>>

\* Extend leaving the length of the phrase at len1
Extend_keeps_len ==
    /\ pc = "loop" /\ i < n
    /\ \E src \in {copy_source} :
           /\ src.p2 = 0 - 1 /\ src.p1 # 0 - 1
           /\ parsing' = [parsing EXCEPT
                             ![Len(parsing)] = Phrase(src.p1, len1, At(s, i))]
    /\ i' = i + 1
    /\ cases' = Append(cases, "extend")
    /\ UNCHANGED <<config, evars, mvars, rvars, map, ref, cout, s, n, isa, lcp, marked, z, pc>>

\* one iteration of the main loop, case "extend last phrase"
Extend ==
    /\ pc = "loop" /\ i < n
    /\ \E src \in {copy_source} :
           /\ src.p2 = 0 - 1 /\ src.p1 # 0 - 1
           /\ parsing' = [parsing EXCEPT
                             ![Len(parsing)] = Phrase(src.p1, len1 + 1, At(s, i))]
    /\ i' = i + 1
    /\ cases' = Append(cases, "extend")
    /\ UNCHANGED <<config, evars, mvars, rvars, map, ref, cout, s, n, isa, lcp, marked, z, pc>>

\* NewLiteral storing the previous byte as ext
NewLiteral_previous_byte ==
    /\ pc = "loop" /\ i < n
    /\ \E src \in {copy_source} : src.p2 = 0 - 1 /\ src.p1 = 0 - 1
    /\ marked' = BTree_insert(marked, isa_last, z)
    /\ parsing' = Append(parsing, Phrase(0, 1, At(s, i - 1)))
    /\ z' = z + 1
    /\ i' = i + 1
    /\ cases' = Append(cases, "literal")
    /\ UNCHANGED <<config, evars, mvars, rvars, map, ref, cout, s, n, isa, lcp, pc>>

\* NewLiteral marking rank 0 instead of isa_last
NewLiteral_marks_zero ==
    /\ pc = "loop" /\ i < n
    /\ \E src \in {copy_source} : src.p2 = 0 - 1 /\ src.p1 = 0 - 1
    /\ marked' = BTree_insert(marked, 0, z)
    /\ parsing' = Append(parsing, Phrase(0, 1, At(s, i)))
    /\ z' = z + 1
    /\ i' = i + 1
    /\ cases' = Append(cases, "literal")
    /\ UNCHANGED <<config, evars, mvars, rvars, map, ref, cout, s, n, isa, lcp, pc>>

\* one iteration of the main loop, case "lazily mark previous phrase, begin
\* new phrase"
NewLiteral ==
    /\ pc = "loop" /\ i < n
    /\ \E src \in {copy_source} : src.p2 = 0 - 1 /\ src.p1 = 0 - 1
    /\ marked' = BTree_insert(marked, isa_last, z)
    /\ parsing' = Append(parsing, Phrase(0, 1, At(s, i)))
    /\ z' = z + 1
    /\ i' = i + 1
    /\ cases' = Append(cases, "literal")
    /\ UNCHANGED <<config, evars, mvars, rvars, map, ref, cout, s, n, isa, lcp, pc>>

\* Return handing back the list without its last phrase
Return_without_last ==
    /\ pc = "loop" /\ i >= n
    /\ pc' = "done"
    /\ parsing' = SubSeq(parsing, 1, Len(parsing) - 1)
    /\ UNCHANGED <<config, evars, mvars, rvars, map, ref, cout, s, n, isa, lcp, marked, z, i, cases>>

\* "return parsing" when the loop condition i < n fails
Return ==
    /\ pc = "loop" /\ i >= n
    /\ pc' = "done"
    /\ UNCHANGED <<config, evars, mvars, rvars, map, ref, cout, s, n, isa, lcp, marked, parsing, z, i, cases>>

Next == Prepare \/ Merge \/ Extend \/ NewLiteral \/ Return

Spec == Init /\ [][Next]_vars

\* parse called with n = 0: the arrays are allocated empty, the libsais calls
\* are made on them, and the RMQ constructor throws out of parse
Prepare_bad_alloc ==
    /\ pc = "prepare"
    /\ n' = Index_of(length(s))
    /\ RMQ_bad_alloc(n')
    /\ lcp' = make_unique(n')
    /\ isa' = make_unique(n')
    /\ pc' = "bad_alloc"
    /\ cout' = cout_until_RMQ
    /\ UNCHANGED <<config, evars, mvars, rvars, map, ref, s, marked, parsing, z, i, cases>>

\* parse up to the main loop when the libsais calls return an error code:
\* the return values are dropped, the arrays stay as make_unique left them,
\* and the RMQ, the permuted inverse suffix array and the initial phrase
\* are built from them
Prepare_libsais_error ==
    /\ pc = "prepare"
    /\ libsais_result # 0
    /\ n' = Index_of(length(s))
    /\ ~RMQ_bad_alloc(n')
    /\ lcp' = make_unique(n')
    /\ isa' = permuted_isa(make_unique(n'), make_unique(n'))
    /\ marked' = NewBTree
    /\ parsing' = <<Phrase(0, 1, At(s, 0))>>
    /\ z' = 0
    /\ i' = 1
    /\ pc' = "loop"
    /\ cout' = cout_until_loop
    /\ UNCHANGED <<config, evars, mvars, rvars, map, ref, s, cases>>

MaxLenAny == 8

\* any call of parse: the empty string and the strings of up to MaxLenAny
\* bytes over 'a', 'b'; a string of one repeated byte may also stand for
\* the string 2^32 bytes longer; the libsais calls succeed or return -2
\* (out of memory)
InitAny ==
    /\ s \in UNION {[1..len -> {97, 98}] : len \in 0..MaxLenAny}
    /\ length_high \in {h \in {0, 1} : h = 1 => s # <<>> /\ \A p \in DOMAIN s : s[p] = s[1]}
    /\ libsais_result \in {0, 0 - 2}
    /\ print_progress \in BOOLEAN
    /\ n = 0
    /\ lcp = <<>>
    /\ isa = <<>>
    /\ degree_ = 65
    /\ block_size_ = 64
    /\ marked = NewBTree
    /\ parsing = <<>>
    /\ z = 0
    /\ i = 0
    /\ cases = <<>>
    /\ pc = "prepare"
    /\ cout = <<>>
    /\ BTreeIdle
    /\ RMQIdle
    /\ MarkerIdle

NextAny == Next \/ Prepare_bad_alloc \/ Prepare_libsais_error

SpecAny == InitAny /\ [][NextAny]_vars

----------------------------------------------------------------------------
(* Claims about the parser *)

\* the sum of the lengths of the first m phrases
RECURSIVE sum_len(_, _)
sum_len(ps, m) == IF m = 0 THEN 0 ELSE sum_len(ps, m - 1) + At(ps, m - 1).len

\* end(k): the position in the text of the last byte of phrase k
phrase_end(ps, k) == sum_len(ps, k + 1) - 1

Undecodable == <<0>>

\* decoding from phrase k on, out being the text decoded so far: phrase
\* (lnk, len, ext) appends the len - 1 bytes of out that end at the last byte
\* of phrase lnk, then ext
RECURSIVE decode(_, _, _)
decode(ps, k, out) ==
    IF k = Len(ps) THEN out
    ELSE LET ph == At(ps, k)
             src_end == phrase_end(ps, ph.lnk)
             src_beg == src_end - (ph.len - 1) + 1
         IN  IF ph.len = 1 THEN decode(ps, k + 1, Append(out, ph.ext))
             ELSE IF ph.len > 1 /\ ph.lnk < k /\ src_beg >= 0
             THEN decode(ps, k + 1,
                         out \o SubSeq(out, src_beg + 1, src_end + 1) \o <<ph.ext>>)
             ELSE Undecodable

\* C1: decoding the returned phrase list reproduces the input.
C1_RoundTrip == pc = "done" => decode(parsing, 0, <<>>) = s

C1_Witness ==
    /\ pc = "done" /\ n >= 6
    /\ \E k \in 1..z : At(parsing, k).len >= 3 /\ At(parsing, k).lnk >= 1
    /\ \E q \in 1..Len(cases) : cases[q] = "merge"

\* C2: the phrase lengths of the returned list sum to |S| and each is >= 1.
C2_Lengths ==
    pc = "done" =>
        /\ sum_len(parsing, Len(parsing)) = Len(s)
        /\ \A k \in 0..(Len(parsing) - 1) : At(parsing, k).len >= 1

C2_Witness ==
    /\ pc = "done" /\ n = MaxLen /\ z >= 3
    /\ \E q \in 1..Len(cases) : cases[q] = "merge"
    /\ \E q \in 1..Len(cases) : cases[q] = "extend"

\* C3: every returned phrase k >= 1 longer than 1 links to an earlier phrase,
\* and its first len - 1 bytes equal the len - 1 bytes of S that end at the
\* last byte of the linked phrase, a range that lies inside S.
C3_CopySource ==
    pc = "done" =>
        \A k \in 1..z :
            LET ph == At(parsing, k)
                e == phrase_end(parsing, k)
                el == phrase_end(parsing, ph.lnk)
            IN  ph.len > 1 =>
                    /\ ph.lnk < k
                    /\ el - ph.len + 2 >= 0
                    /\ el <= Len(s) - 1
                    /\ \A q \in 0..(ph.len - 2) :
                           At(s, e - ph.len + 1 + q) = At(s, el - ph.len + 2 + q)

C3_Witness ==
    /\ pc = "done"
    /\ \E k \in 2..z : At(parsing, k).len >= 4 /\ At(parsing, k).lnk = k - 2
    /\ cases[Len(cases)] = "merge"

\* C4: ext of every returned phrase is the byte of S at the phrase's last
\* position.
C4_Ext ==
    pc = "done" =>
        \A k \in 0..z : At(parsing, k).ext = At(s, phrase_end(parsing, k))

C4_Witness ==
    /\ pc = "done"
    /\ \E k \in 2..z : At(parsing, k).len >= 2 /\ At(parsing, k).ext # At(s, 0)
    /\ At(parsing, z).len >= 3 /\ At(parsing, z).ext = 99

\* the text prefix ending at position e has S[p..p+l-1] as a suffix
is_suffix_at(text, p, l, e) ==
    /\ l <= e + 1
    /\ \A q \in 0..(l - 1) : At(text, p + q) = At(text, e - l + 1 + q)

\* the reference parsing from position p on, ends being the last positions of
\* the phrases before p: the phrase at p has length l + 1 for the largest l
\* with p + l <= n - 1 such that S[p..p+l-1] is a suffix of the prefix ending
\* at some e in ends (l = 0 always allowed)
RECURSIVE greedy_lengths(_, _, _)
greedy_lengths(text, p, ends) ==
    IF p >= Len(text) THEN <<>>
    ELSE LET fits == {l \in 0..(Len(text) - 1 - p) :
                         l = 0 \/ \E e \in ends : is_suffix_at(text, p, l, e)}
             l == CHOOSE m \in fits : \A o \in fits : o <= m
         IN  <<l + 1>> \o greedy_lengths(text, p + l + 1, ends \cup {p + l})

RECURSIVE lengths_of(_, _)
lengths_of(ps, m) ==
    IF m = 0 THEN <<>> ELSE Append(lengths_of(ps, m - 1), At(ps, m - 1).len)

\* C5: the returned phrase lengths are those of the greedy LZ-End parsing.
C5_Greedy ==
    pc = "done" => lengths_of(parsing, Len(parsing)) = greedy_lengths(s, 0, {})

C5_Witness ==
    /\ pc = "done" /\ n >= 8
    /\ \E k \in 1..Len(greedy_lengths(s, 0, {})) : greedy_lengths(s, 0, {})[k] >= 4
    /\ \E q \in 1..Len(cases) : cases[q] = "merge"
    /\ z >= 3

\* C6: in every state of the main loop and on return, phrase 0 is
\* (0, 1, S[0]).
C6_PhraseZero ==
    pc \in {"loop", "done"} =>
        /\ Len(parsing) >= 1
        /\ At(parsing, 0) = Phrase(0, 1, At(s, 0))

C6_Witness ==
    /\ pc = "loop" /\ i < n
    /\ cases # <<>> /\ cases[Len(cases)] = "merge"
    /\ z = 2 /\ At(parsing, 1).len >= 2

\* C17: for a single-byte input the main loop runs no iteration and parse
\* returns exactly the list [(0, 1, S[0])].
C17_SingleByte ==
    (pc = "done" /\ Len(s) = 1) =>
        /\ parsing = <<Phrase(0, 1, At(s, 0))>>
        /\ cases = <<>>

C17_Witness == pc = "done" /\ s = <<99>> /\ Len(parsing) = 1 /\ i = 1

\* C18: for the empty input parse returns an empty phrase list: the call
\* does not end in an exception, and the list it returns has no phrase.
C18_EmptyInput ==
    (Len(s) = 0 /\ length_high = 0) =>
        /\ pc # "bad_alloc"
        /\ pc = "done" => parsing = <<>>

\* C19: an input of 2^31 bytes or more is refused before any index is
\* built: parse never holds an LCP array or a permuted inverse suffix array
\* for it, never assigns its truncated length to n and never enters the
\* main loop.
C19_RefusesLarge ==
    length_high > 0 =>
        /\ pc \notin {"loop", "done"}
        /\ lcp = <<>> /\ isa = <<>>
        /\ n = 0

\* C20: when the libsais calls report failure parse does not go on to the
\* RMQ construction and the main loop with the arrays it got.
C20_SurfacesFailure ==
    libsais_result # 0 => pc \notin {"loop", "done"}

\* C21 as stated: for S = "aa" parse returns [(0, 1, 'a'), (0, 2, 'a')] with
\* z = 1, the second phrase being produced by an extend step.
C21_Example_aa_extend ==
    (pc = "done" /\ s = <<97, 97>>) =>
        /\ parsing = <<Phrase(0, 1, 97), Phrase(0, 2, 97)>>
        /\ z = 1
        /\ cases = <<"extend">>

\* C21: for S = "aa" parse returns [(0, 1, 'a'), (0, 1, 'a')] with z = 1, the
\* second phrase being produced by a new-literal step.
C21_Example_aa ==
    (pc = "done" /\ s = <<97, 97>>) =>
        /\ parsing = <<Phrase(0, 1, 97), Phrase(0, 1, 97)>>
        /\ z = 1
        /\ cases = <<"literal">>

C21_Witness == pc = "done" /\ s = <<97, 97>> /\ Len(parsing) = 2 /\ i = 2

\* C22 as stated: for S = "abab" parse returns exactly two phrases, of
\* lengths 1 and 3, the second one being produced by a merge step.
C22_Example_abab_merge ==
    (pc = "done" /\ s = <<97, 98, 97, 98>>) =>
        /\ lengths_of(parsing, Len(parsing)) = <<1, 3>>
        /\ cases[Len(cases)] = "merge"

\* C22: for S = "abab" parse returns exactly three phrases, (0, 1, 'a'),
\* (0, 1, 'b') and (0, 2, 'b'), of lengths 1, 1 and 2, produced by two
\* new-literal steps and a final extend step; no merge step is taken.
C22_Example_abab ==
    (pc = "done" /\ s = <<97, 98, 97, 98>>) =>
        /\ parsing = <<Phrase(0, 1, 97), Phrase(0, 1, 98), Phrase(0, 2, 98)>>
        /\ cases = <<"literal", "literal", "extend">>

C22_Witness == pc = "done" /\ s = <<97, 98, 97, 98>> /\ Len(parsing) = 3 /\ i = 4

\* C26: with print_progress = false parse writes no progress output at
\* all.
C26_QuietUnlessVerbose ==
    ~print_progress => cout = <<>>

----------------------------------------------------------------------------
(* The container on its own: any sequence of insert(k, v) with k not        *)
(* contained and erase(k) on a non-empty container (the preconditions the  *)
(* source documents), for the degrees in Degrees.                          *)

MaxKey == 11
Degrees == {5, 7}

Keys == 0..MaxKey

\* the value a key is inserted with, as in test_map: insert(5, 500), ...
ValueOf(key) == 100 * key

ParseIdle ==
    /\ s = <<>> /\ n = 0 /\ isa = <<>> /\ lcp = <<>>
    /\ marked = NewBTree /\ parsing = <<>> /\ z = 0 /\ i = 0 /\ cases = <<>>
    /\ pc = "idle"
    /\ cout = <<>>

InitBTree ==
    /\ degree_ \in Degrees
    /\ block_size_ = 64
    /\ map = NewBTree
    /\ ref = <<>>
    /\ ParseIdle
    /\ RMQIdle
    /\ MarkerIdle
    /\ Nominal

Insert(key, value) ==
    /\ key \notin DOMAIN ref
    /\ map' = BTree_insert(map, key, value)
    /\ ref' = [k \in DOMAIN ref \cup {key} |-> IF k = key THEN value ELSE ref[k]]
    /\ UNCHANGED <<config, evars, mvars, rvars, pvars>>

Erase(key) ==
    /\ map.size_ > 0
    /\ map' = BTree_erase(map, key).tree
    /\ ref' = [k \in DOMAIN ref \ {key} |-> ref[k]]
    /\ UNCHANGED <<config, evars, mvars, rvars, pvars>>

NextBTree ==
    \/ \E key \in Keys : Insert(key, ValueOf(key))
    \/ \E key \in Keys : Erase(key)

SpecBTree == InitBTree /\ [][NextBTree]_vars

----------------------------------------------------------------------------
(* Claims about the container *)

\* the keys a query is asked for: every key the container can hold and one
\* beyond on each side
QueryKeys == (0 - 1)..(MaxKey + 1)

Present == DOMAIN ref

MaxOf(S) == CHOOSE m \in S : \A k \in S : k <= m
MinOf(S) == CHOOSE m \in S : \A k \in S : m <= k

RECURSIVE height(_)
height(nd) == IF is_leaf(nd) THEN 1 ELSE 1 + height(At(nd.ch, 0))

\* C7: contains(k) is true exactly for the keys inserted and not erased since,
\* and find(k) returns exists with key k and the value given at k's insertion
\* in exactly that case, exists = false otherwise.
C7_Membership ==
    \A x \in QueryKeys :
        /\ BTree_contains(map, x) = (x \in Present)
        /\ IF x \in Present
           THEN BTree_find(map, x) = [exists |-> TRUE, key |-> x, value |-> ref[x]]
           ELSE BTree_find(map, x).exists = FALSE

C7_Witness ==
    /\ degree_ = 5 /\ height(map.root_) = 3 /\ map.size_ <= 9
    /\ \E x \in Keys \ Present : x < MaxOf(Present) /\ x > MinOf(Present)

\* C8: predecessor(x) returns the largest present key <= x with its value, and
\* exists = false exactly when no present key is <= x.
C8_Predecessor ==
    \A x \in QueryKeys :
        LET below == {k \in Present : k <= x}
            r == BTree_predecessor(map, x)
        IN  IF below = {}
            THEN r.exists = FALSE
            ELSE r = [exists |-> TRUE, key |-> MaxOf(below), value |-> ref[MaxOf(below)]]

\* the keys stored in internal nodes
RECURSIVE internal_keys(_)
internal_keys(nd) ==
    IF is_leaf(nd) THEN {}
    ELSE {nd.keys[j] : j \in 1..Len(nd.keys)}
         \cup UNION {internal_keys(nd.ch[j]) : j \in 1..Len(nd.ch)}

C8_Witness ==
    /\ height(map.root_) = 3
    /\ \E x \in Keys \ Present :
           /\ BTree_predecessor(map, x).exists
           /\ BTree_predecessor(map, x).key \in internal_keys(map.root_)
    /\ \E x \in Keys \ Present :
           /\ BTree_predecessor(map, x).exists
           /\ BTree_predecessor(map, x).key \notin internal_keys(map.root_)
    /\ BTree_predecessor(map, 0).exists = FALSE

\* C9: successor(x) returns the smallest present key >= x with its value, and
\* exists = false exactly when no present key is >= x.
C9_Successor ==
    \A x \in QueryKeys :
        LET above == {k \in Present : k >= x}
            r == BTree_successor(map, x)
        IN  IF above = {}
            THEN r.exists = FALSE
            ELSE r = [exists |-> TRUE, key |-> MinOf(above), value |-> ref[MinOf(above)]]

C9_Witness ==
    /\ height(map.root_) = 3
    /\ \E x \in Keys \ Present :
           /\ BTree_successor(map, x).exists
           /\ BTree_successor(map, x).key \in internal_keys(map.root_)
    /\ \E x \in Keys \ Present :
           /\ BTree_successor(map, x).exists
           /\ BTree_successor(map, x).key \notin internal_keys(map.root_)
    /\ BTree_successor(map, MaxKey).exists = FALSE

\* C10: size() equals the number of keys present (so a new container has
\* size 0), and empty() holds exactly when no key is present.
C10_Size ==
    /\ BTree_size(map) = Cardinality(Present)
    /\ BTree_empty(map) = (Present = {})

C10_Witness ==
    /\ degree_ = 7 /\ ~is_leaf(map.root_) /\ BTree_size(map) = 5
    /\ ~BTree_empty(map)

\* the (key, value) pairs stored in the subtree of nd
RECURSIVE pairs(_)
pairs(nd) ==
    {<<nd.keys[j], nd.vals[j]>> : j \in 1..Len(nd.keys)}
    \cup UNION {pairs(nd.ch[j]) : j \in 1..Len(nd.ch)}

\* e is the outcome of erase(key) on the tree t holding the keys of present:
\* true exactly for a present key, and when false, the pairs and the size of
\* the tree afterwards are those of t
erase_outcome(t, present, key, e) ==
    /\ e.result = (key \in present)
    /\ ~e.result =>
           /\ pairs(e.tree.root_) = pairs(t.root_)
           /\ BTree_size(e.tree) = BTree_size(t)

\* C11: an erase on a non-empty tree returns true exactly when the key was
\* present; when it returns false the stored (key, value) pairs and size()
\* are unchanged, whatever the descent did to the nodes.
C11_EraseResult ==
    map.size_ > 0 =>
        \A key \in Keys : erase_outcome(map, Present, key, BTree_erase(map, key))

\* the erase of an absent key has merged nodes on the way down and made the
\* tree lower
erase_restructures(t, e) ==
    ~e.result /\ e.tree.root_ # t.root_ /\ height(e.tree.root_) < height(t.root_)

C11_Witness ==
    /\ map.size_ > 0
    /\ \E key \in Keys \ Present : erase_restructures(map, BTree_erase(map, key))
    /\ \E key \in Present : BTree_erase(map, key).result

\* C12: on a non-empty tree min_key() and min() give the smallest present
\* key (min() with its value), max_key() and max() the largest; on an empty
\* tree min() and max() return exists = false.
C12_Extremes ==
    IF Present = {}
    THEN BTree_min(map).exists = FALSE /\ BTree_max(map).exists = FALSE
    ELSE /\ BTree_min_key(map) = MinOf(Present)
         /\ BTree_max_key(map) = MaxOf(Present)
         /\ BTree_min(map) = [exists |-> TRUE, key |-> MinOf(Present),
                              value |-> ref[MinOf(Present)]]
         /\ BTree_max(map) = [exists |-> TRUE, key |-> MaxOf(Present),
                              value |-> ref[MaxOf(Present)]]

C12_Witness ==
    /\ height(map.root_) = 3 /\ map.size_ <= 10
    /\ BTree_min(map).key > 1 /\ BTree_max(map).key < MaxKey - 1
    /\ BTree_min_key(map) \notin internal_keys(map.root_)

\* the depths of the leaves below nd, nd being at depth d
RECURSIVE leaf_depths(_, _)
leaf_depths(nd, d) ==
    IF is_leaf(nd) THEN {d}
    ELSE UNION {leaf_depths(nd.ch[j], d + 1) : j \in 1..Len(nd.ch)}

\* C13: all leaves of the tree lie at the same depth.
C13_Balance == Cardinality(leaf_depths(map.root_, 0)) = 1

C13_Witness ==
    /\ leaf_depths(map.root_, 0) = {2}
    /\ map.size_ <= 10
    /\ Len(map.root_.ch) = 2
    /\ Len(At(map.root_.ch, 0).ch) # Len(At(map.root_.ch, 1).ch)

\* the numbers of keys of the nodes below nd, nd itself excluded
RECURSIVE nonroot_sizes(_)
nonroot_sizes(nd) ==
    {size(nd.ch[j]) : j \in 1..Len(nd.ch)}
    \cup UNION {nonroot_sizes(nd.ch[j]) : j \in 1..Len(nd.ch)}

\* C14 as stated: every non-root node holds at least ceil(d/2) - 1 keys.
C14_OccupancyCeil ==
    \A k \in nonroot_sizes(map.root_) : k >= (degree_ + 1) \div 2 - 1

\* C14: every non-root node holds at least floor(d/2) - 1 keys, that is
\* deletion_threshold_ - 1 (31 for d = 65).
C14_Occupancy ==
    \A k \in nonroot_sizes(map.root_) : k >= degree_ \div 2 - 1

\* a root that was split on the last insert: its left child holds
\* floor(d/2) - 1 keys and its right child floor(d/2)
C14_Witness ==
    /\ ~is_leaf(map.root_) /\ size(map.root_) = 1
    /\ size(At(map.root_.ch, 0)) = degree_ \div 2 - 1
    /\ map.size_ = degree_

----------------------------------------------------------------------------
(* The range-minimum structures on their own: an RMQ with block size        *)
(* block_size_ and an RMQBenderFarachColton are built over the array data_  *)
(* and one of them is asked rmq(i, j) for some 0 <= i <= j < n; neither     *)
(* changes after construction, so an answer depends on no earlier query.   *)

MaxData == 9
Values == {0, 1}
BlockSizes == {1, 2}

DataArrays == UNION {[1..len -> Values] : len \in 1..MaxData}

InitRMQ ==
    /\ data_ \in DataArrays
    /\ block_size_ \in BlockSizes
    /\ degree_ = 65
    /\ query = <<>>
    /\ answer = <<>>
    /\ BTreeIdle
    /\ ParseIdle
    /\ Nominal
    /\ MarkerIdle

\* what the caller's variable min may hold before the call: a value of the
\* array or one that is not in it
ValuesBefore == Values \cup {2}

\* the caller's variable min after rmq(qi, qj, min), before being what it
\* held at the call: "if(i == j) return i" leaves it as it was
min_after(data, qi, qj, before) ==
    IF qi = qj THEN before ELSE RMQ_rmq_min(data, qi, qj).min

\* RMQ<Value, block_size_>(data_, n).rmq(qi, qj, min): the position returned
\* and the caller's min afterwards
RMQ_query(qi, qj) ==
    /\ query = <<>>
    /\ query' = <<"RMQ", qi, qj>>
    /\ \E before \in ValuesBefore :
           answer' = [pos |-> RMQ_rmq(data_, qi, qj),
                      min |-> min_after(data_, qi, qj, before)]
    /\ UNCHANGED <<config, evars, mvars, map, ref, pvars, data_>>

\* RMQBenderFarachColton<Value>(data_, n).rmq(qi, qj), n >= 2
RMQBenderFarachColton_query(qi, qj) ==
    /\ query = <<>>
    /\ Len(data_) >= 2
    /\ query' = <<"RMQBenderFarachColton", qi, qj>>
    /\ answer' = [pos |-> RMQBenderFarachColton_rmq(data_, RMQBenderFarachColton(data_).rmq_,
                                                    qi, qj),
                  min |-> Uninit]
    /\ UNCHANGED <<config, evars, mvars, map, ref, pvars, data_>>

NextRMQ ==
    \/ \E qi \in 0..(Len(data_) - 1) : \E qj \in qi..(Len(data_) - 1) : RMQ_query(qi, qj)
    \/ \E qi \in 0..(Len(data_) - 1) : \E qj \in qi..(Len(data_) - 1) :
           RMQBenderFarachColton_query(qi, qj)

SpecRMQ == InitRMQ /\ [][NextRMQ]_vars

----------------------------------------------------------------------------
(* Claims about the range-minimum structures *)

\* the leftmost position of the minimum of D[qi..qj], by a plain scan
RECURSIVE linear_scan(_, _, _)
linear_scan(D, qi, qj) ==
    IF qi = qj THEN qi
    ELSE LET p == linear_scan(D, qi, qj - 1)
         IN  IF At(D, qj) < At(D, p) THEN qj ELSE p

\* C15: for an array of length m >= 2 and 0 <= i <= j < m, the sparse table
\* query returns the leftmost position of the minimum of D[i..j], a position
\* in [i, j], and no read of a level table or of D was out of bounds.
C15_SparseTable ==
    (query # <<>> /\ query[1] = "RMQBenderFarachColton") =>
        /\ answer.pos # OutOfBounds
        /\ query[2] <= answer.pos /\ answer.pos <= query[3]
        /\ \A q \in query[2]..query[3] : At(data_, answer.pos) <= At(data_, q)
        /\ \A q \in query[2]..(answer.pos - 1) : At(data_, q) > At(data_, answer.pos)

C15_Witness ==
    /\ query # <<>> /\ query[1] = "RMQBenderFarachColton"
    /\ query[3] - query[2] + 1 = 6
    /\ answer.pos > query[2] + 3
    /\ \E q \in (answer.pos + 1)..query[3] : At(data_, q) = At(data_, answer.pos)

\* C16: for every array, block size and 0 <= i <= j < n, rmq(i, j) returns
\* the leftmost position of the minimum of data[i..j], the position a plain
\* linear scan finds, on the naive path and on the three-part path.
C16_BlockRMQ ==
    (query # <<>> /\ query[1] = "RMQ") =>
        answer.pos = linear_scan(data_, query[2], query[3])

\* a query on the three-part path whose answer lies in a middle block and
\* whose minimum also occurs in the right tail
C16_Witness ==
    /\ query # <<>> /\ query[1] = "RMQ"
    /\ query[3] - query[2] > 3 * block_size_
    /\ answer.pos >= (query[2] \div block_size_ + 1) * block_size_
    /\ answer.pos < (query[3] \div block_size_) * block_size_
    /\ At(data_, query[3]) = At(data_, answer.pos)
    /\ At(data_, query[2]) > At(data_, answer.pos)

----------------------------------------------------------------------------
(* The range-marking map next to the B-tree map and a reference map: the   *)
(* same insert, erase and clear calls are made of both containers.         *)

Capacities == {64, 128}
MaxKeys == {0, 15, 128, 255}
MaxClears == 1

\* the keys inserted and erased, and the keys queried
MarkerKeys == {k \in {0, 1, 63, 64, 127, 128, 255} : k <= stated_max_key}
MarkerQueryKeys ==
    {k \in {0, 1, 2, 62, 63, 64, 65, 126, 127, 128, 129, 200, 254, 255} : k <= stated_max_key}

InitMarker ==
    /\ stated_max_key \in MaxKeys
    /\ marker \in {RangeMarker(stated_max_key, capacity) : capacity \in Capacities}
    /\ mlog = [clears |-> 0, out_of_bounds |-> FALSE, last |-> "construct"]
    /\ degree_ = 65
    /\ block_size_ = 64
    /\ map = NewBTree
    /\ ref = <<>>
    /\ ParseIdle
    /\ RMQIdle
    /\ Nominal

\* the call was made with a key whose bucket the constructor did not
\* allocate: the assertion fails, or buckets_ is accessed past its end
out_of_bounds(op) ==
    /\ mlog' = [clears |-> mlog.clears, out_of_bounds |-> TRUE, last |-> op]
    /\ UNCHANGED <<marker, map, ref>>

\* insert(key, value) on both containers
MarkerInsert(key, value) ==
    /\ ~mlog.out_of_bounds
    /\ key \notin DOMAIN ref
    /\ IF bucket_allocated(marker, key)
       THEN /\ marker' = RangeMarker_insert(marker, key, value)
            /\ map' = BTree_insert(map, key, value)
            /\ ref' = [k \in DOMAIN ref \cup {key} |-> IF k = key THEN value ELSE ref[k]]
            /\ mlog' = [clears |-> mlog.clears, out_of_bounds |-> FALSE, last |-> "insert"]
       ELSE out_of_bounds("insert")
    /\ UNCHANGED <<config, evars, rvars, pvars, stated_max_key>>

\* erase(key) on both containers
MarkerErase(key) ==
    /\ ~mlog.out_of_bounds
    /\ map.size_ > 0
    /\ IF bucket_allocated(marker, key)
       THEN /\ marker' = RangeMarker_erase(marker, key).tree
            /\ map' = BTree_erase(map, key).tree
            /\ ref' = [k \in DOMAIN ref \ {key} |-> ref[k]]
            /\ mlog' = [clears |-> mlog.clears, out_of_bounds |-> FALSE, last |-> "erase"]
       ELSE out_of_bounds("erase")
    /\ UNCHANGED <<config, evars, rvars, pvars, stated_max_key>>

\* clear() on both containers
MarkerClear ==
    /\ ~mlog.out_of_bounds
    /\ mlog.clears < MaxClears
    /\ marker' = RangeMarker_clear(marker)
    /\ map' = NewBTree
    /\ ref' = <<>>
    /\ mlog' = [clears |-> mlog.clears + 1, out_of_bounds |-> FALSE, last |-> "clear"]
    /\ UNCHANGED <<config, evars, rvars, pvars, stated_max_key>>

NextMarker ==
    \/ \E key \in MarkerKeys : MarkerInsert(key, ValueOf(key))
    \/ \E key \in MarkerKeys : MarkerErase(key)
    \/ MarkerClear

SpecMarker == InitMarker /\ [][NextMarker]_vars

----------------------------------------------------------------------------
(* Claims about the range-marking map *)

same_result(a, b) == a.exists = b.exists /\ (a.exists => a.key = b.key /\ a.value = b.value)

\* what a sorted reference map returns
entry(k) == [exists |-> TRUE, key |-> k, value |-> ref[k]]
ref_find(x) == IF x \in Present THEN entry(x) ELSE QueryNone
ref_predecessor(x) ==
    IF {k \in Present : k <= x} = {} THEN QueryNone ELSE entry(MaxOf({k \in Present : k <= x}))
ref_successor(x) ==
    IF {k \in Present : k >= x} = {} THEN QueryNone ELSE entry(MinOf({k \in Present : k >= x}))
ref_min == IF Present = {} THEN QueryNone ELSE entry(MinOf(Present))
ref_max == IF Present = {} THEN QueryNone ELSE entry(MaxOf(Present))

\* C23: after any sequence of insert and erase calls with distinct keys
\* within the stated maximum key, the range-marking map and the B-tree map
\* return the same results for size, empty, contains, find, predecessor,
\* successor, min, max, min_key and max_key, each that of a sorted
\* reference map.
C23_SameBehaviour ==
    (mlog # <<>> /\ mlog.clears = 0 /\ ~mlog.out_of_bounds) =>
        /\ RangeMarker_size(marker) = Cardinality(Present)
        /\ BTree_size(map) = Cardinality(Present)
        /\ RangeMarker_empty(marker) = (Present = {})
        /\ BTree_empty(map) = (Present = {})
        /\ same_result(RangeMarker_min(marker), ref_min)
        /\ same_result(BTree_min(map), ref_min)
        /\ same_result(RangeMarker_max(marker), ref_max)
        /\ same_result(BTree_max(map), ref_max)
        /\ Present # {} =>
               /\ RangeMarker_min_key(marker) = MinOf(Present)
               /\ BTree_min_key(map) = MinOf(Present)
               /\ RangeMarker_max_key(marker) = MaxOf(Present)
               /\ BTree_max_key(map) = MaxOf(Present)
        /\ \A x \in {k \in MarkerQueryKeys : bucket_allocated(marker, k)} :
               /\ RangeMarker_contains(marker, x) = (x \in Present)
               /\ BTree_contains(map, x) = (x \in Present)
               /\ same_result(RangeMarker_find(marker, x), ref_find(x))
               /\ same_result(BTree_find(map, x), ref_find(x))
               /\ same_result(RangeMarker_predecessor(marker, x), ref_predecessor(x))
               /\ same_result(BTree_predecessor(map, x), ref_predecessor(x))
               /\ same_result(RangeMarker_successor(marker, x), ref_successor(x))
               /\ same_result(BTree_successor(map, x), ref_successor(x))

C23_Witness ==
    /\ mlog # <<>> /\ mlog.clears = 0 /\ ~mlog.out_of_bounds
    /\ marker.sampling_ = 64 /\ stated_max_key = 255
    /\ Present = {1, 63, 255}
    /\ RangeMarker_successor(marker, 64).key = 255
    /\ RangeMarker_predecessor(marker, 254).key = 63
    /\ mlog.last = "erase"

\* C24: a RangeMarker constructed with max_key accepts every key k with
\* 0 <= k <= max_key: the bucket index k / capacity is below the number of
\* buckets the constructor allocated, and no call with such a key goes out
\* of bounds.
C24_KeysInRange ==
    mlog # <<>> =>
        /\ \A k \in 0..stated_max_key : bucket_for(marker, k) < marker.num_buckets_
        /\ ~mlog.out_of_bounds

\* C25: after clear() the container is empty: size() = 0, empty() is true,
\* min() and max() return exists = false, and contains, predecessor and
\* successor report nothing for every key.
C25_ClearEmpties ==
    (mlog # <<>> /\ mlog.last = "clear") =>
        /\ RangeMarker_size(marker) = 0
        /\ RangeMarker_empty(marker)
        /\ ~RangeMarker_min(marker).exists
        /\ ~RangeMarker_max(marker).exists
        /\ \A x \in {k \in MarkerQueryKeys : bucket_allocated(marker, k)} :
               /\ ~RangeMarker_contains(marker, x)
               /\ ~RangeMarker_predecessor(marker, x).exists
               /\ ~RangeMarker_successor(marker, x).exists

----------------------------------------------------------------------------
(* Claims about the state of the parser's main loop *)

\* the marks the current phrases 0..z-1 should have
current_marks == {<<At(isa, phrase_end(parsing, k)), k>> : k \in 0..(z - 1)}

\* C27: at the start of every iteration and on return, marked holds exactly
\* the entries ISA[end(k)] -> k of the current phrases k < z: the back phrase
\* is not marked and a phrase absorbed by a merge has lost its mark.
C27_MarkedSet ==
    pc \in {"loop", "done"} => pairs(marked.root_) = current_marks

C27_Witness ==
    /\ pc = "loop" /\ z >= 2
    /\ cases # <<>> /\ cases[Len(cases)] = "merge"
    /\ pairs(marked.root_) = current_marks

\* C28: the parser keeps to the map's preconditions: an iteration that
\* inserts does so with a key that is not present, and an iteration that
\* erases does so on a non-empty map with a key that is present (erase
\* returns true).
C28_MapPreconditions ==
    (pc = "loop" /\ i < n) =>
        \A src \in {copy_source} :
            /\ (src.p2 = 0 - 1 /\ src.p1 = 0 - 1) => ~BTree_contains(marked, isa_last)
            /\ src.p2 # 0 - 1 =>
                   /\ marked.size_ > 0
                   /\ BTree_erase(marked, At(isa, i - 1 - len1)).result

C28_Witness ==
    /\ pc = "loop" /\ i < n /\ marked.size_ >= 2
    /\ copy_source.p2 # 0 - 1
    /\ BTree_contains(marked, At(isa, i - 1 - len1))

\* the change in the number of phrases that goes with a case
unit_step(c) == IF c = "merge" THEN 0 - 1 ELSE IF c = "extend" THEN 0 ELSE 1

\* C29: in every state of the main loop z is the number of phrases less one
\* and marked holds exactly z entries; every iteration takes exactly one of
\* the three cases and changes the number of phrases by -1 (merge), 0
\* (extend) or +1 (new literal).
C29_UnitSteps ==
    /\ [](pc \in {"loop", "done"} =>
              /\ z = Len(parsing) - 1
              /\ marked.size_ = z
              /\ Cardinality(pairs(marked.root_)) = z)
    /\ [][(pc = "loop" /\ i' # i) =>
              /\ Len(cases') = Len(cases) + 1
              /\ SubSeq(cases', 1, Len(cases)) = cases
              /\ cases'[Len(cases')] \in {"merge", "extend", "literal"}
              /\ Len(parsing') = Len(parsing) + unit_step(cases'[Len(cases')])
              /\ z' = z + unit_step(cases'[Len(cases')])
              /\ i' = i + 1]_vars

C29_Witness ==
    /\ pc = "loop" /\ i = n /\ Len(parsing) = 3
    /\ \E a, b, c \in 1..Len(cases) :
           cases[a] = "merge" /\ cases[b] = "extend" /\ cases[c] = "literal"

\* the phrases below index k are the same in both lists
same_below(ps, qs, k) == \A j \in 0..(k - 1) : At(ps, j) = At(qs, j)

\* C30: a merge changes only phrases z-1 and z (z is popped, z-1 becomes
\* (p2, len2+1, S[i])) and removes only the mark ISA[i-1-len1]; an extend
\* changes only the back phrase, to (p1, len1+1, S[i]), and leaves marked
\* unchanged; a new literal leaves every existing phrase unchanged, pushes
\* (0, 1, S[i]) and adds only the mark (ISA[i-1], z).
C30_Frame ==
    [][(pc = "loop" /\ i' # i) =>
          \A src \in {copy_source} :
              /\ cases'[Len(cases')] = "merge" =>
                     /\ Len(parsing') = z
                     /\ same_below(parsing', parsing, z - 1)
                     /\ At(parsing', z - 1) = Phrase(src.p2, len2 + 1, At(s, i))
                     /\ <<At(isa, i - 1 - len1), z - 1>> \in pairs(marked.root_)
                     /\ pairs(marked'.root_) =
                            pairs(marked.root_) \ {<<At(isa, i - 1 - len1), z - 1>>}
              /\ cases'[Len(cases')] = "extend" =>
                     /\ Len(parsing') = z + 1
                     /\ same_below(parsing', parsing, z)
                     /\ At(parsing', z) = Phrase(src.p1, len1 + 1, At(s, i))
                     /\ marked' = marked
              /\ cases'[Len(cases')] = "literal" =>
                     /\ Len(parsing') = z + 2
                     /\ same_below(parsing', parsing, z + 1)
                     /\ At(parsing', z + 1) = Phrase(0, 1, At(s, i))
                     /\ <<isa_last, z>> \notin pairs(marked.root_)
                     /\ pairs(marked'.root_) = pairs(marked.root_) \cup {<<isa_last, z>>}]_vars

C30_Witness ==
    /\ pc = "loop" /\ z >= 3
    /\ cases # <<>> /\ cases[Len(cases)] = "merge"
    /\ Len(cases) >= 2 /\ cases[Len(cases) - 1] = "extend"

----------------------------------------------------------------------------
(* Claims about the candidates of find_copy_source *)

\* length of the longest common suffix of text[0..a] and text[0..b], given
\* that they agree on the last l characters
RECURSIVE common_suffix(_, _, _, _)
common_suffix(text, a, b, l) ==
    IF a - l >= 0 /\ b - l >= 0 /\ At(text, a - l) = At(text, b - l)
    THEN common_suffix(text, a, b, l + 1)
    ELSE l

\* the query of marked that the lambda f makes for x
marked_query(f, x) ==
    IF f = "lex_smaller_phrase"
    THEN BTree_predecessor(marked, x - 1)
    ELSE BTree_successor(marked, x + 1)

\* "if(c.len >= len1) ... if(i > len1) if(c.lnk == z-1)": the re-query is made
requeried(c) == c.len >= len1 /\ i > len1 /\ c.lnk = z - 1

\* the directions find_copy_source is called with in this iteration
directions_called ==
    LET first == find_copy_source("lex_smaller_phrase", [p1 |-> 0 - 1, p2 |-> 0 - 1])
    IN  IF first.p1 = 0 - 1 \/ first.p2 = 0 - 1
        THEN {"lex_smaller_phrase", "lex_greater_phrase"}
        ELSE {"lex_smaller_phrase"}

\* the candidate f(x), when marked has an entry for it, carries the length of
\* the longest common suffix of S[0..i-1] and S[0..end(lnk)]
true_length(f, x) ==
    marked_query(f, x).exists =>
        apply_f(f, x).len =
            common_suffix(s, i - 1, phrase_end(parsing, apply_f(f, x).lnk), 0)

\* C31: every candidate of an iteration that is not the sentinel, the
\* candidate of the re-query for c.lnk = z-1 included, has as its len the
\* length of the longest common suffix of S[0..i-1] and S[0..end(c.lnk)].
C31_CandidateLength ==
    (pc = "loop" /\ i < n) =>
        \A f \in directions_called :
            /\ true_length(f, isa_last)
            /\ requeried(apply_f(f, isa_last)) =>
                   true_length(f, apply_f(f, isa_last).lex_pos)

\* the candidate of the first query of a call carries the true length
FirstCandidateLength ==
    (pc = "loop" /\ i < n) =>
        \A f \in directions_called : true_length(f, isa_last)

\* p1, p2 after "find_copy_source(lex_smaller_phrase)"
after_smaller == find_copy_source("lex_smaller_phrase", [p1 |-> 0 - 1, p2 |-> 0 - 1])

\* C32: when the search in the greater direction runs after the smaller one,
\* it assigns only those of p1, p2 that are still -1: a p1 (or p2) that the
\* smaller direction has set keeps its value.
C32_GreaterKeepsSmaller ==
    (pc = "loop" /\ i < n) =>
        \A first \in {after_smaller} :
            (first.p1 = 0 - 1 \/ first.p2 = 0 - 1) =>
                /\ first.p1 # 0 - 1 => second_call(first).p1 = first.p1
                /\ first.p2 # 0 - 1 => second_call(first).p2 = first.p2

\* C33: whenever the re-query is executed, the candidate it returns has
\* len < len2 and so enables no merge; p2 is only ever set from the first
\* candidate of a call, one with lnk # z-1, and a merge source p2 is at most
\* z-2.
C33_RequeryNeverMerges ==
    (pc = "loop" /\ i < n) =>
        /\ \A f \in directions_called :
               requeried(apply_f(f, isa_last)) =>
                   apply_f(f, apply_f(f, isa_last).lex_pos).len < len2
        /\ \A src \in {copy_source} :
               src.p2 # 0 - 1 =>
                   /\ 0 <= src.p2 /\ src.p2 <= z - 2
                   /\ \E f \in directions_called :
                          /\ ~requeried(apply_f(f, isa_last))
                          /\ marked_query(f, isa_last).exists
                          /\ apply_f(f, isa_last).lnk = src.p2
                          /\ apply_f(f, isa_last).lnk # z - 1
                          /\ apply_f(f, isa_last).len >= len2

\* a re-query that finds a marked phrase whose candidate is at least len1 long
C33_Witness ==
    /\ pc = "loop" /\ i < n
    /\ \E f \in directions_called :
           /\ requeried(apply_f(f, isa_last))
           /\ marked_query(f, apply_f(f, isa_last).lex_pos).exists
           /\ apply_f(f, apply_f(f, isa_last).lex_pos).len >= len1
           /\ apply_f(f, apply_f(f, isa_last).lex_pos).len > apply_f(f, isa_last).len

\* the arguments of the call of rmq that the lambda f makes for x, given the
\* entry r of marked it has found
rmq_arguments(f, x, r) ==
    IF f = "lex_smaller_phrase"
    THEN [l |-> r.key + 1, r |-> x]
    ELSE [l |-> x + 1, r |-> r.key]

\* the call of rmq that f makes for x, if it makes one, has arguments
\* 0 <= l <= r < n and returns a position of lcp between them
rmq_in_bounds(f, x) ==
    marked_query(f, x).exists =>
        \A a \in {rmq_arguments(f, x, marked_query(f, x))} :
            /\ 0 <= a.l /\ a.l <= a.r /\ a.r < n
            /\ a.l <= RMQ_rmq(lcp, a.l, a.r) /\ RMQ_rmq(lcp, a.l, a.r) <= a.r

\* C34: the main loop is memory safe: in every iteration parsing[z],
\* parsing[z-1] and isa[i-1] exist; a merge is taken only when z >= 2, so
\* that pop_back leaves a back phrase, and erases the mark at an index
\* i-1-len1 within [0, n); every call of rmq made by a candidate search,
\* the re-query included, has arguments l <= r within [0, n).
C34_LoopMemorySafe ==
    (pc = "loop" /\ i < n) =>
        /\ 0 <= z /\ z < Len(parsing)
        /\ 0 <= i - 1 /\ i - 1 < Len(isa) /\ Len(isa) = n /\ Len(lcp) = n /\ Len(s) = n
        /\ \A src \in {copy_source} :
               src.p2 # 0 - 1 =>
                   /\ z >= 2 /\ Len(parsing) >= 3
                   /\ 0 <= i - 1 - len1 /\ i - 1 - len1 < n
        /\ \A f \in directions_called :
               /\ rmq_in_bounds(f, isa_last)
               /\ requeried(apply_f(f, isa_last)) =>
                      rmq_in_bounds(f, apply_f(f, isa_last).lex_pos)

\* an iteration that merges at z = 3, the least z a merge is taken at for
\* these inputs, after a candidate search that called rmq
C34_Witness ==
    /\ pc = "loop" /\ i < n /\ z = 3
    /\ copy_source.p2 # 0 - 1
    /\ \E f \in directions_called : marked_query(f, isa_last).exists

----------------------------------------------------------------------------
(* Claims about the construction of the range-minimum structures *)

\* every entry of every level was computed from reads inside the arrays
levels_in_bounds(levels) ==
    \A l \in 1..Len(levels) : \A p \in 1..Len(levels[l]) : levels[l][p] # OutOfBounds

\* RMQ(data, n): every block scanned lies within data, and the table over
\* the block minima is built by reads and writes inside its arrays
RMQ_constructor_in_bounds(data) ==
    /\ \A block \in 0..(num_blocks(Len(data)) - 1) :
           /\ block * block_size_ < Len(data)
           /\ block * block_size_ < block_end(Len(data), block)
    /\ \A table \in {RMQBenderFarachColton(block_minima(data, num_blocks(Len(data))))} :
           /\ ~table.overflow
           /\ levels_in_bounds(table.rmq_)

\* C35: constructing the block RMQ over an array of any length n >= 1 makes
\* only reads and writes within bounds, also when n <= block_size_, where
\* there is a single block and the sparse table is built over one block
\* minimum with zero levels.
C35_ConstructionInBounds ==
    data_ # <<>> => RMQ_constructor_in_bounds(data_)

\* the construction over more than one block stays within bounds
ConstructionInBoundsBlocks ==
    (data_ # <<>> /\ Len(data_) > block_size_) => RMQ_constructor_in_bounds(data_)

----------------------------------------------------------------------------
(* Claims about the shape of the B-tree *)

\* the keys stored in the subtree of nd
subtree_keys(nd) == {p[1] : p \in pairs(nd)}

\* the number of keys stored in the subtree of nd, each occurrence counted
RECURSIVE count_keys(_)
RECURSIVE count_children(_, _)
count_keys(nd) == size(nd) + count_children(nd, Len(nd.ch))
count_children(nd, m) ==
    IF m = 0 THEN 0 ELSE count_children(nd, m - 1) + count_keys(nd.ch[m])

\* the subtree of nd is a search tree holding values: keys ascend strictly
\* within a node, the value of a key sits at the key's index, an internal
\* node has one child more than keys, and the keys below child j lie between
\* the node's keys j-1 and j
RECURSIVE search_tree(_, _)
search_tree(nd, values) ==
    /\ Len(nd.vals) = Len(nd.keys)
    /\ \A j \in 1..(Len(nd.keys) - 1) : nd.keys[j] < nd.keys[j + 1]
    /\ \A j \in 1..Len(nd.keys) :
           nd.keys[j] \in DOMAIN values /\ nd.vals[j] = values[nd.keys[j]]
    /\ is_leaf(nd) \/ Len(nd.ch) = size(nd) + 1
    /\ \A j \in 1..Len(nd.ch) :
           /\ \A k \in subtree_keys(nd.ch[j]) :
                  /\ j > 1 => k > nd.keys[j - 1]
                  /\ j <= Len(nd.keys) => k < nd.keys[j]
           /\ search_tree(nd.ch[j], values)

\* C36: after any sequence of inserts and erases with unique keys the tree
\* is a search tree: in every node the keys are strictly increasing and each
\* value sits at the index of its key, an internal node with s keys has
\* exactly s+1 children, every key below child j lies between the keys j-1
\* and j of the parent, and no key occurs twice in the tree.
C36_SearchTree ==
    /\ search_tree(map.root_, ref)
    /\ count_keys(map.root_) = Cardinality(subtree_keys(map.root_))

\* a tree of three levels that erases have thinned out
C36_Witness ==
    /\ height(map.root_) = 3 /\ map.size_ <= 9
    /\ \E j \in 1..Len(map.root_.ch) : size(map.root_.ch[j]) >= 2
    /\ search_tree(map.root_, ref)

----------------------------------------------------------------------------
(* The assertions of the B-tree: for each operation, whether every assert  *)
(* on the path it takes holds. The path is the one Node_insert and         *)
(* Node_erase take.                                                        *)

\* the asserts of split_child(p), of the insert_child(p + 1, z) it calls and
\* its closing assertions on the sizes of y and z
split_child_asserts(nd, p) ==
    /\ ~is_full(nd)
    /\ is_full(At(nd.ch, p))
    /\ p + 1 <= Len(nd.ch) /\ Len(nd.ch) < degree_
    /\ \A after \in {split_child(nd, p)} :
           /\ size(At(after.ch, p + 1)) = split_right_
           /\ size(At(after.ch, p)) = split_mid_
           /\ ~is_leaf(At(nd.ch, p)) =>
                  /\ Len(At(after.ch, p + 1).ch) = split_right_ + 1
                  /\ Len(At(after.ch, p).ch) = split_mid_ + 1

\* the asserts of Node::insert(key, value) and of the calls below it
RECURSIVE Node_insert_asserts(_, _)
Node_insert_asserts(nd, key) ==
    /\ ~is_full(nd)
    /\ IF is_leaf(nd) THEN TRUE
       ELSE LET r == LinearSearchBase_predecessor(nd.keys, key)
                p0 == IF r.exists THEN r.pos + 1 ELSE 0
                full == is_full(At(nd.ch, p0))
                nd1 == IF full THEN split_child(nd, p0) ELSE nd
                p1 == IF full /\ key > At(nd1.keys, p0) THEN p0 + 1 ELSE p0
            IN  /\ full => split_child_asserts(nd, p0)
                /\ Node_insert_asserts(At(nd1.ch, p1), key)

\* the asserts of BTree::insert(key, value)
BTree_insert_asserts(t, key) ==
    IF is_full(t.root_)
    THEN /\ split_child_asserts(insert_child(NewNode, 0, t.root_), 0)
         /\ Node_insert_asserts(split_child(insert_child(NewNode, 0, t.root_), 0), key)
    ELSE Node_insert_asserts(t.root_, key)

\* the asserts of "preprocess child so we can safely remove from it" for the
\* child c = children_[p] of nd, c being below the threshold
preprocess_asserts(nd, p, key) ==
    LET c == At(nd.ch, p)
        has_left == p > 0
        has_right == p < Len(nd.ch) - 1
        left == At(nd.ch, p - 1)
        right == At(nd.ch, p + 1)
    IN  /\ size(c) = deletion_threshold_ - 1
        /\ IF has_left /\ size(left) >= deletion_threshold_
           THEN /\ key > At(nd.keys, p - 1)
                /\ At(nd.keys, p - 1) > At(left.keys, size(left) - 1)
                /\ ~is_leaf(left) => Len(left.ch) > 0 /\ Len(c.ch) < degree_
           ELSE IF has_right /\ size(right) >= deletion_threshold_
           THEN /\ p < size(nd)
                /\ key < At(nd.keys, p)
                /\ At(right.keys, 0) > At(nd.keys, p)
                /\ ~is_leaf(right) => Len(right.ch) > 0 /\ Len(c.ch) < degree_
           ELSE /\ has_left \/ has_right
                /\ has_left => size(left) = deletion_threshold_ - 1
                /\ has_right => size(right) = deletion_threshold_ - 1
                /\ has_right =>
                       /\ key < At(nd.keys, p)
                       /\ ~is_leaf(right) => ~is_leaf(c)
                /\ (has_left /\ ~has_right) =>
                       /\ key > At(nd.keys, p - 1)
                       /\ ~is_leaf(left) => ~is_leaf(c)

\* the asserts of Node::erase(key) and of the calls below it
RECURSIVE Node_erase_asserts(_, _)
Node_erase_asserts(nd, key) ==
    /\ size(nd) > 0
    /\ IF is_leaf(nd) THEN TRUE
       ELSE
         LET r == LinearSearchBase_predecessor(nd.keys, key)
             p == IF r.exists THEN r.pos + 1 ELSE 0
         IN
         IF r.exists /\ At(nd.keys, r.pos) = key
         THEN
           LET y == At(nd.ch, p - 1)
               zc == At(nd.ch, p)
           IN  /\ p < degree_
               /\ IF size(y) >= deletion_threshold_
                  THEN Node_erase_asserts(y, max_key_of(rightmost_leaf(y)))
                  ELSE IF size(zc) >= deletion_threshold_
                  THEN Node_erase_asserts(zc, At(leftmost_leaf(zc).keys, 0))
                  ELSE /\ size(y) = deletion_threshold_ - 1
                       /\ size(zc) = deletion_threshold_ - 1
                       /\ ~is_leaf(zc) => ~is_leaf(y)
                       /\ Node_erase_asserts(At(merge_around(nd, p, key).ch, p - 1), key)
         ELSE
           IF size(At(nd.ch, p)) < deletion_threshold_
           THEN /\ preprocess_asserts(nd, p, key)
                /\ \A pre \in {preprocess_child(nd, p)} :
                       Node_erase_asserts(At(pre.node.ch, pre.pos), key)
           ELSE Node_erase_asserts(At(nd.ch, p), key)

\* the asserts of BTree::erase(key) on a tree that holds a key
BTree_erase_asserts(t, key) ==
    /\ Node_erase_asserts(t.root_, key)
    /\ \A e \in {Node_erase(t.root_, key)} :
           (size(e.node) = 0 /\ Len(e.node.ch) > 0) => Len(e.node.ch) = 1

\* Node::erase(key) reads no key of an empty leaf ("c->impl_[c->size()-1]",
\* "c->impl_[0]" for the neighbour of a key in an internal node) and no
\* sibling that does not exist
RECURSIVE reads_defined(_, _)
reads_defined(nd, key) ==
    IF is_leaf(nd) THEN TRUE
    ELSE
      LET r == LinearSearchBase_predecessor(nd.keys, key)
          p == IF r.exists THEN r.pos + 1 ELSE 0
      IN
      IF r.exists /\ At(nd.keys, r.pos) = key
      THEN
        LET y == At(nd.ch, p - 1)
            zc == At(nd.ch, p)
        IN  IF size(y) >= deletion_threshold_
            THEN /\ size(rightmost_leaf(y)) > 0
                 /\ reads_defined(y, max_key_of(rightmost_leaf(y)))
            ELSE IF size(zc) >= deletion_threshold_
            THEN /\ size(leftmost_leaf(zc)) > 0
                 /\ reads_defined(zc, At(leftmost_leaf(zc).keys, 0))
            ELSE reads_defined(At(merge_around(nd, p, key).ch, p - 1), key)
      ELSE
        IF size(At(nd.ch, p)) < deletion_threshold_
        THEN /\ Len(nd.ch) >= 2
             /\ \A pre \in {preprocess_child(nd, p)} :
                    reads_defined(At(pre.node.ch, pre.pos), key)
        ELSE reads_defined(At(nd.ch, p), key)

\* no node holds more than d-1 keys or d children
RECURSIVE within_capacity(_)
within_capacity(nd) ==
    /\ size(nd) <= node_capacity
    /\ Len(nd.ch) <= degree_
    /\ \A j \in 1..Len(nd.ch) : within_capacity(nd.ch[j])

\* no assertion fails in the next operation on the tree, whichever it is:
\* the insert of an absent key, or an erase when the tree holds a key (an
\* erase of which every read is defined)
no_assertion_fails(keys) ==
    /\ within_capacity(map.root_)
    /\ \A key \in keys \ Present : BTree_insert_asserts(map, key)
    /\ map.size_ > 0 =>
           \A key \in keys : reads_defined(map.root_, key) => BTree_erase_asserts(map, key)

\* for the degrees 5 and 7 every read of an erase is defined and no
\* assertion of the B-tree fails
NoAssertionFails ==
    /\ no_assertion_fails(Keys)
    /\ map.size_ > 0 => \A key \in Keys : reads_defined(map.root_, key)

----------------------------------------------------------------------------
(* The container with the least odd degree its static_asserts admit, 3:    *)
(* node_capacity = 2, split_mid_ = 0 and deletion_threshold_ = 1, so that  *)
(* a split leaves the left node without keys. The behaviours followed are  *)
(* those in which every read of an erase is defined.                       *)

MaxSmallKey == 5

SmallKeys == 0..MaxSmallKey

InitBTree3 ==
    /\ degree_ = 3
    /\ block_size_ = 64
    /\ map = NewBTree
    /\ ref = <<>>
    /\ ParseIdle
    /\ RMQIdle
    /\ MarkerIdle
    /\ Nominal

\* erase(key) on a non-empty tree, when every read it makes is defined
Erase3(key) ==
    /\ map.size_ > 0
    /\ reads_defined(map.root_, key)
    /\ Erase(key)

NextBTree3 ==
    \/ \E key \in SmallKeys : Insert(key, ValueOf(key))
    \/ \E key \in SmallKeys : Erase3(key)

SpecBTree3 == InitBTree3 /\ [][NextBTree3]_vars

\* C37: for any odd degree d, 3 included, and any sequence of inserts of
\* unique keys and erases on a non-empty tree, no assertion of insert_child,
\* erase_child, split_child, Node::insert, Node::erase or BTree::erase
\* fails: Node::insert is not entered on a full node, a child below the
\* deletion threshold has exactly threshold-1 keys, the splitters satisfy the
\* ordering checks, and no node exceeds d-1 keys or d children.
C37_NoAssertionFails == no_assertion_fails(SmallKeys)

\* the root of t holds a key unless t is empty, when it is a key-less leaf;
\* it never has several children and no key
root_collapsed(t) ==
    /\ t.size_ > 0 => size(t.root_) >= 1
    /\ t.size_ = 0 => is_leaf(t.root_) /\ size(t.root_) = 0
    /\ ~(size(t.root_) = 0 /\ Len(t.root_.ch) > 1)

\* BTree::erase(key) on t: a root that root_->erase(key) = e left with no
\* key has at most one child, and that child is the root when erase returns
collapses_within(t, key, e) ==
    (size(e.node) = 0 /\ Len(e.node.ch) > 0) =>
        /\ Len(e.node.ch) = 1
        /\ BTree_erase(t, key).tree.root_ = At(e.node.ch, 0)

\* the tree is collapsed now and after whichever erase comes next (an erase
\* of which every read is defined)
root_collapse(keys) ==
    /\ root_collapsed(map)
    /\ map.size_ > 0 =>
           \A key \in keys :
               reads_defined(map.root_, key) =>
                   /\ collapses_within(map, key, Node_erase(map.root_, key))
                   /\ root_collapsed(BTree_erase(map, key).tree)

\* for the degrees 5 and 7 the root is collapsed after every erase
RootCollapse == root_collapse(Keys)

\* C38: after every BTree::erase returns, the root holds at least one key
\* unless the tree is empty, when the root is a leaf with zero keys; a root
\* left with zero keys and one child is replaced by that child within the
\* same call, and the root never has zero keys with more than one child.
C38_RootCollapse == root_collapse(SmallKeys)

----------------------------------------------------------------------------
(* Claims about the minimum that RMQ::rmq hands back *)

\* C39: rmq(i, j, min) sets the out-parameter min to data[p] for the position
\* p it returns, for every i <= j, i = j included.
C39_MinAssigned ==
    (query # <<>> /\ query[1] = "RMQ") => answer.min = At(data_, answer.pos)

\* for i < j the out-parameter is the value at the position returned
MinAssignedBetween ==
    (query # <<>> /\ query[1] = "RMQ" /\ query[2] < query[3]) =>
        answer.min = At(data_, answer.pos)

====
